---- MODULE Spec2Model ----
(***************************************************************************)
(* A model of pytest-leela's per-mutant execution protocol (runner.py),   *)
(* its import hook and mutation applier (import_hook.py), its mutation    *)
(* point scanner (ast_analysis.py) and its operator registry              *)
(* (operators.py).                                                        *)
(*                                                                        *)
(* Three specifications share the module:                                 *)
(*   Spec          one call of run_tests_for_mutant on process state      *)
(*   SpecApplier   scanning a parsed tree and applying one mutant to it   *)
(*   SpecRegistry  mutations_for and count_pruned on lists of points      *)
(***************************************************************************)
EXTENDS Integers, Sequences, FiniteSets, TLC

VARIABLES
    \* ---- process state and one run_tests_for_mutant call (runner.py)
    pc,                \* "start" | "running" | "done"
    meta_path,         \* sys.meta_path: sequence of finders
    modules,           \* sys.modules: module name -> module object
    start_meta_path,   \* sys.meta_path at the moment the call began
    start_modules,     \* sys.modules at the moment the call began
    saved_meta_path,   \* runner.py:156 snapshot
    saved_modules,     \* runner.py:157 snapshot
    collector,         \* _ResultCollector
    reports,           \* the reports pytest delivered, in order
    steps,             \* how many things the inner run has done
    exit,              \* "none" | "returned" | "crashed" | "propagated"
    result,            \* the MutantResult returned (NoResult when none)
    \* ---- scanner and applier on one parsed tree
    apc,               \* "off" | "parsed" | "scanned" | "applied"
    source,            \* the source text, as the statements it is made of
    tree,              \* the tree ast.parse gives for the source
    mutant,            \* the Mutant handed to the applier
    out_tree,          \* the tree apply_mutation returned
    applied,           \* the applied flag apply_mutation returned
    points,            \* the points find_mutation_points returned
    \* ---- operator registry
    rpc,               \* "off" | "ready" | "looked_up" | "counted"
    reg_points,        \* the list of MutationPoints handed in
    use_types,         \* the use_types argument
    reg_out,           \* mutations_for(reg_points[1], use_types)
    pruned,            \* count_pruned(reg_points, use_types)
    \* ---- one Engine.run call (engine.py)
    epc,               \* "off" | "start" | "files" | "coverage" |
                       \* "loop" | "return" | "done" | "raised"
    target_files,      \* the target_files argument
    eng_types,         \* self.use_types
    use_coverage,      \* self.use_coverage
    limits,            \* the limits argument
    diff_base,         \* the diff_base argument
    diff_lines,        \* what changed_lines(diff_base) returns
    test_node_ids,     \* the test_node_ids argument
    cov_found,         \* what collect_coverage returns when it is called
    killer,            \* which mutants the tests kill
    file_idx,          \* position of the loop over target_files
    all_mutants,       \* all_mutants
    total_pruned,      \* total_pruned
    next_mutant_id,    \* the local mutant_id
    total_mutants,     \* total_mutants
    target_sources,    \* target_sources: module name -> source
    module_to_file,    \* module_to_file: module name -> path
    coverage_map,      \* coverage_map
    coverage_runs,     \* how many times collect_coverage was called
    mut_idx,           \* position of the loop over all_mutants
    usage,             \* the last reading of check_memory_usage
    stopped,           \* whether the loop was left by break
    calls,             \* the calls of run_tests_for_mutant, in order
    run_results,       \* the local results
    run_result,        \* the RunResult returned
    \* ---- one coverage pass (coverage_tracker.py)
    cpc,               \* "off" | "run" | "done"
    tracer_active,     \* _LineTracer._active
    lines_hit,         \* _LineTracer.lines_hit
    sys_trace,         \* thread -> the trace function sys.settrace gave it
    threading_trace,   \* the trace function threading.settrace holds
    frames,            \* thread -> the function frame it is running
    line_to_tests,     \* CoveragePlugin.coverage_map.line_to_tests
    cur_item,          \* the test between its setup and teardown, 0 if none
    items_done,        \* how many tests had their teardown
    born,              \* thread -> the test it was started in
    owned,             \* (target file, line, test): the test ran the line
                       \* between its setup and its teardown
    \* ---- one pytest_sessionfinish call of LeelaPlugin (plugin.py)
    ppc,               \* "off" | "finish" | "engine" | "reported" | "returned"
    exitstatus,        \* the exitstatus argument of the hook
    session_exitstatus,\* session.exitstatus, what the pytest process exits with
    written,           \* the results whose report went to the terminal
    \* ---- one enrich_mutation_points call on a nested function
    tpc,               \* "off" | "scanned" | "enriched"
    nested,            \* the source: a function with a function defined in it
    typed_points,      \* the points enrich_mutation_points returned
    \* ---- the cleanup functions called on a process state
    last_cleanup       \* the cleanup function called last, "none" before any

runnerVars == <<pc, meta_path, modules, start_meta_path, start_modules,
                saved_meta_path, saved_modules, collector, reports, steps,
                exit, result>>
applierVars == <<apc, source, tree, mutant, out_tree, applied, points>>
registryVars == <<rpc, reg_points, use_types, reg_out, pruned>>
engineVars == <<epc, target_files, eng_types, use_coverage, limits, diff_base,
                diff_lines, test_node_ids, cov_found, killer, file_idx,
                all_mutants, total_pruned, next_mutant_id, total_mutants,
                target_sources, module_to_file, coverage_map, coverage_runs,
                mut_idx, usage, stopped, calls, run_results, run_result>>
tracerVars == <<cpc, tracer_active, lines_hit, sys_trace, threading_trace,
                frames, line_to_tests, cur_item, items_done, born, owned>>
pluginVars == <<ppc, exitstatus, session_exitstatus, written>>
enricherVars == <<tpc, nested, typed_points>>
cleanupVars == <<last_cleanup>>
vars == <<runnerVars, applierVars, registryVars, engineVars, tracerVars,
          pluginVars, enricherVars, cleanupVars>>

(***************************************************************************)
(* Bounds of the model.                                                   *)
(***************************************************************************)
MaxInnerSteps == 2   \* things the inner pytest.main() does before it ends
MaxDepth == 2        \* nesting depth of the expression in a statement
MaxPoints == 3       \* length of the list handed to count_pruned

(***************************************************************************)
(* Sequence helpers.                                                      *)
(***************************************************************************)
RECURSIVE FilterSeq(_, _)
\* [x for x in s if x \notin drop]
FilterSeq(s, drop) ==
    IF s = <<>> THEN <<>>
    ELSE IF Head(s) \in drop THEN FilterSeq(Tail(s), drop)
         ELSE <<Head(s)>> \o FilterSeq(Tail(s), drop)

RECURSIVE RemoveFirst(_, _)
\* list.remove(x), with the ValueError of an absent x swallowed
RemoveFirst(s, x) ==
    IF s = <<>> THEN <<>>
    ELSE IF Head(s) = x THEN Tail(s)
         ELSE <<Head(s)>> \o RemoveFirst(Tail(s), x)

SeqSet(s) == {s[i] : i \in 1..Len(s)}

IsPrefix(p, s) == Len(p) <= Len(s) /\ SubSeq(s, 1, Len(p)) = p

(***************************************************************************)
(* PROCESS STATE: finders, module names, module objects.                  *)
(* A module name is the sequence of its dotted segments; a file path is   *)
(* the sequence of its components; <<>> is a module without __file__.     *)
(***************************************************************************)
Finder(cls, id) == [cls |-> cls, id |-> id]
IsMutatingFinder(f) == f.cls = "MutatingFinder"

BuiltinImporter == Finder("BuiltinImporter", 0)
PathFinder == Finder("PathFinder", 0)
AssertionRewritingHook == Finder("AssertionRewritingHook", 0)
StaleFinder == Finder("MutatingFinder", 0)   \* left by a crashed earlier run
OwnFinder == Finder("MutatingFinder", 1)     \* the one this call installs

Cwd == <<"proj">>
UnderCwd(file) == Len(file) > Len(Cwd) /\ IsPrefix(Cwd, file)

TargetName == <<"target">>
TargetSub == <<"target", "sub">>
TestModule == <<"test_target">>
LeelaModule == <<"pytest_leela", "engine">>
JsonModule == <<"json">>
NtPath == <<"ntpath">>
ModuleNames == {TargetName, TargetSub, TestModule, LeelaModule, JsonModule, NtPath}

\* target_sources.keys() (runner.py:116)
module_names == <<TargetName>>

\* runner.py:18-21
StdlibPathModules == {NtPath}

\* The first segments of the model's names that start with one of
\* _KEEP_PREFIXES ("pytest_leela.", "_pytest", "pytest", "pluggy", "py.", "_py")
KeepPrefixed(name) ==
    \/ name[1] \in {"pytest_leela", "pytest", "_pytest", "pluggy", "_py"}
    \/ name[1] = "py" /\ Len(name) > 1

\* Where the import machinery finds each name on disk.
DiskFile(name) ==
    IF name \in {JsonModule, NtPath} THEN <<"lib", name[1]>>
    ELSE Cwd \o name

Module(gen, file) == [gen |-> gen, file |-> file]

Cached(mods) == DOMAIN mods
Pop(mods, names) == [n \in (DOMAIN mods) \ names |-> mods[n]]
Put(mods, name, mod) ==
    [n \in (DOMAIN mods) \cup {name} |-> IF n = name THEN mod ELSE mods[n]]
\* dict.update
Update(mods, other) ==
    [n \in (DOMAIN mods) \cup (DOMAIN other) |->
        IF n \in DOMAIN other THEN other[n] ELSE mods[n]]

IsSubmoduleOf(k, name) == Len(k) > Len(name) /\ IsPrefix(name, k)

(***************************************************************************)
(* import_hook.py: install_hook, remove_hook, clear_target_modules,       *)
(* MutatingFinder.find_spec.                                              *)
(***************************************************************************)
install_hook(mp, finder) == <<finder>> \o mp

\* remove_hook taking the head of the chain when the finder is not on it
remove_hook_PopsHead(mp, finder) ==
    IF finder \in SeqSet(mp) THEN RemoveFirst(mp, finder) ELSE Tail(mp)

\* import_hook.py:203-208
remove_hook(mp, finder) == RemoveFirst(mp, finder)

RECURSIVE clear_target_modules_SubmodulesOnly(_, _)
\* clear_target_modules without sys.modules.pop(name, None)
clear_target_modules_SubmodulesOnly(mods, names) ==
    IF names = <<>> THEN mods
    ELSE LET to_remove == {k \in Cached(mods) : IsSubmoduleOf(k, Head(names))}
         IN clear_target_modules_SubmodulesOnly(Pop(mods, to_remove), Tail(names))

RECURSIVE clear_target_modules(_, _)
clear_target_modules(mods, names) ==
    IF names = <<>> THEN mods
    ELSE LET name == Head(names)
             to_remove == {k \in Cached(mods) : IsSubmoduleOf(k, name)}
         IN clear_target_modules(Pop(mods, {name} \cup to_remove), Tail(names))

\* The file of the module object an import of `name` creates under the
\* chain mp: the first MutatingFinder of this call that knows the name
\* loads it from memory (no __file__), otherwise it comes from disk.
find_spec(mp, name) ==
    IF OwnFinder \in SeqSet(mp) /\ name \in SeqSet(module_names)
    THEN <<>>
    ELSE DiskFile(name)

(***************************************************************************)
(* runner.py: _clear_user_modules, _ResultCollector, run_tests_for_mutant *)
(***************************************************************************)
_clear_user_modules(mods) ==
    LET to_remove == {name \in Cached(mods) :
                         /\ mods[name].file # <<>>
                         /\ UnderCwd(mods[name].file)
                         /\ ~KeepPrefixed(name)}
    IN Pop(mods, to_remove)

NewCollector == [passed |-> <<>>, failed |-> <<>>, errors |-> <<>>, total |-> 0]

pytest_runtest_logreport(c, report) ==
    IF report.when = "call"
    THEN LET c1 == [c EXCEPT !.total = @ + 1]
         IN IF report.outcome = "passed"
            THEN [c1 EXCEPT !.passed = Append(@, report.nodeid)]
            ELSE IF report.outcome = "failed"
                 THEN [c1 EXCEPT !.failed = Append(@, report.nodeid)]
                 ELSE c1
    ELSE IF report.when \in {"setup", "teardown"} /\ report.outcome = "failed"
         THEN [c EXCEPT !.errors = Append(@, report.nodeid)]
         ELSE c

NoneValue == "<None>"
Crashed == "<crashed>"
NoResult == [killed |-> FALSE, tests_run |-> -1, killing_test |-> NoneValue,
             test_ids_run |-> <<>>, killing_tests |-> <<>>]

\* CrashResult with the crash reported as a survivor
CrashResult_NotKilled(c) ==
    [killed |-> FALSE, tests_run |-> c.total, killing_test |-> NoneValue,
     test_ids_run |-> <<>>, killing_tests |-> <<>>]

\* runner.py:163-174
CrashResult(c) ==
    [killed |-> TRUE, tests_run |-> c.total, killing_test |-> Crashed,
     test_ids_run |-> <<>>, killing_tests |-> <<Crashed>>]

\* NormalResult with the setup/teardown errors looked at first
NormalResult_ErrorsFirst(c) ==
    [killed |-> Len(c.failed) > 0 \/ Len(c.errors) > 0,
     tests_run |-> c.total,
     killing_test |-> IF c.errors # <<>> THEN c.errors[1]
                      ELSE IF c.failed # <<>> THEN c.failed[1]
                      ELSE NoneValue,
     test_ids_run |-> c.passed \o c.failed \o c.errors,
     killing_tests |-> c.failed \o c.errors]

\* runner.py:194-211
NormalResult(c) ==
    [killed |-> Len(c.failed) > 0 \/ Len(c.errors) > 0,
     tests_run |-> c.total,
     killing_test |-> IF c.failed # <<>> THEN c.failed[1]
                      ELSE IF c.errors # <<>> THEN c.errors[1]
                      ELSE NoneValue,
     test_ids_run |-> c.passed \o c.failed \o c.errors,
     killing_tests |-> c.failed \o c.errors]

\* RestoreModules without sys.modules.update(saved_modules)
RestoreModules_NoUpdate(mods, saved) ==
    LET added_in_cwd == {key \in Cached(mods) :
                            /\ key \notin Cached(saved)
                            /\ mods[key].file # <<>>
                            /\ UnderCwd(mods[key].file)}
    IN Pop(mods, added_in_cwd)

\* RestoreModules without the removal of what the run added
RestoreModules_KeepsAdded(mods, saved) == Update(mods, saved)

\* runner.py:175-192, the inner finally
RestoreModules(mods, saved) ==
    LET updated == Update(mods, saved)
        added_in_cwd == {key \in Cached(updated) :
                            /\ key \notin Cached(saved)
                            /\ updated[key].file # <<>>
                            /\ UnderCwd(updated[key].file)}
    IN Pop(updated, added_in_cwd)

RestoreMetaPath(mp, saved) == saved

\* CleanupMetaPath without the safety net of runner.py:221-224
CleanupMetaPath_NoSweep(mp, finder) == remove_hook(mp, finder)

\* runner.py:212-231, the outer finally
CleanupMetaPath(mp, finder) ==
    LET removed == remove_hook(mp, finder)
    IN FilterSeq(removed, {f \in SeqSet(removed) : IsMutatingFinder(f)})

CleanupModules(mods) ==
    LET cleared == _clear_user_modules(clear_target_modules(mods, module_names))
        absent == StdlibPathModules \ Cached(cleared)
    IN [n \in Cached(cleared) \cup absent |->
           IF n \in Cached(cleared) THEN cleared[n] ELSE Module(0, DiskFile(n))]

(***************************************************************************)
(* One call of run_tests_for_mutant.                                      *)
(***************************************************************************)
InitialMetaPaths ==
    { <<BuiltinImporter, PathFinder>>,
      <<StaleFinder, BuiltinImporter, PathFinder>>,
      <<BuiltinImporter, StaleFinder, PathFinder>> }

InitialModules ==
    { [n \in S |-> Module(0, DiskFile(n))] : S \in SUBSET ModuleNames }

NodeIds == {"t1", "t2"}
\* (when, outcome) of the reports pytest sends: every outcome of the call
\* phase, and the setup and teardown phases that pass or fail
Phases ==
    { <<"call", "passed">>, <<"call", "failed">>, <<"call", "skipped">>,
      <<"setup", "passed">>, <<"setup", "failed">>, <<"teardown", "failed">> }
Reports ==
    { [when |-> ph[1], outcome |-> ph[2], nodeid |-> id] :
          ph \in Phases, id \in NodeIds }

ApplierOff ==
    /\ apc = "off" /\ source = <<>> /\ tree = <<>> /\ mutant = <<>> /\ out_tree = <<>>
    /\ applied = FALSE /\ points = <<>>

RegistryOff ==
    /\ rpc = "off" /\ reg_points = <<>> /\ use_types = FALSE
    /\ reg_out = <<>> /\ pruned = 0

EngineOff ==
    /\ epc = "off" /\ target_files = <<>> /\ eng_types = FALSE
    /\ use_coverage = FALSE /\ limits = <<>> /\ diff_base = NoneValue
    /\ diff_lines = <<>> /\ test_node_ids = <<>> /\ cov_found = <<>>
    /\ killer = "none" /\ file_idx = 0 /\ all_mutants = <<>>
    /\ total_pruned = 0 /\ next_mutant_id = 0 /\ total_mutants = 0
    /\ target_sources = <<>> /\ module_to_file = <<>>
    /\ coverage_map = <<>> /\ coverage_runs = 0 /\ mut_idx = 0
    /\ usage = 0 /\ stopped = FALSE /\ calls = <<>> /\ run_results = <<>>
    /\ run_result = <<>>

\* the coverage tracker's variables while no coverage pass is modelled
TracerOff ==
    /\ cpc = "off"
    /\ tracer_active = FALSE /\ lines_hit = {}
    /\ sys_trace = <<>> /\ threading_trace = "none"
    /\ frames = <<>> /\ line_to_tests = <<>>
    /\ cur_item = 0 /\ items_done = 0
    /\ born = <<>> /\ owned = {}

\* the plugin's variables while no pytest_sessionfinish call is modelled
PluginOff ==
    /\ ppc = "off" /\ exitstatus = 0 /\ session_exitstatus = 0 /\ written = <<>>

\* the enricher's variables while no enrich_mutation_points call on a nested
\* function is modelled
EnricherOff ==
    /\ tpc = "off" /\ nested = <<>> /\ typed_points = <<>>

\* no cleanup function is called on its own
CleanupOff == last_cleanup = "none"

RunnerOff ==
    /\ pc = "off" /\ meta_path = <<>> /\ modules = <<>>
    /\ start_meta_path = <<>> /\ start_modules = <<>>
    /\ saved_meta_path = <<>> /\ saved_modules = <<>>
    /\ collector = NewCollector /\ reports = <<>> /\ steps = 0
    /\ exit = "none" /\ result = NoResult

Init ==
    /\ pc = "start"
    /\ meta_path \in InitialMetaPaths
    /\ modules \in InitialModules
    /\ start_meta_path = meta_path
    /\ start_modules = modules
    /\ saved_meta_path = <<>>
    /\ saved_modules = <<>>
    /\ collector = NewCollector
    /\ reports = <<>>
    /\ steps = 0
    /\ exit = "none"
    /\ result = NoResult
    /\ ApplierOff
    /\ RegistryOff
    /\ EngineOff
    /\ TracerOff
    /\ PluginOff
    /\ EnricherOff
    /\ CleanupOff

\* runner.py:114-157: install the hook, evict, snapshot, call pytest.main
RunBegin ==
    /\ pc = "start"
    /\ LET mp == install_hook(meta_path, OwnFinder)
           mods == _clear_user_modules(clear_target_modules(modules, module_names))
       IN /\ meta_path' = mp
          /\ modules' = mods
          /\ saved_meta_path' = mp
          /\ saved_modules' = mods
    /\ collector' = NewCollector
    /\ pc' = "running"
    /\ UNCHANGED <<start_meta_path, start_modules, reports, steps, exit, result>>
    /\ UNCHANGED <<applierVars, registryVars, engineVars, tracerVars, pluginVars, enricherVars, cleanupVars>>

\* ---- what the inner pytest.main() may do while it runs
InnerFrame ==
    /\ pc = "running"
    /\ steps < MaxInnerSteps
    /\ steps' = steps + 1
    /\ UNCHANGED <<pc, start_meta_path, start_modules, saved_meta_path,
                   saved_modules, exit, result>>
    /\ UNCHANGED <<applierVars, registryVars, engineVars, tracerVars, pluginVars, enricherVars, cleanupVars>>

\* an import statement runs: a new module object enters the cache
InnerImport ==
    /\ InnerFrame
    /\ \E name \in ModuleNames :
          modules' = Put(modules, name, Module(1, find_spec(meta_path, name)))
    /\ UNCHANGED <<meta_path, collector, reports>>

\* something evicts a module from the cache
InnerEvict ==
    /\ InnerFrame
    /\ \E name \in Cached(modules) : modules' = Pop(modules, {name})
    /\ UNCHANGED <<meta_path, collector, reports>>

\* pytest installs its assertion rewriter
InnerInsertHook ==
    /\ InnerFrame
    /\ meta_path' = <<AssertionRewritingHook>> \o meta_path
    /\ UNCHANGED <<modules, collector, reports>>

\* something takes a finder off the chain
InnerRemoveFinder ==
    /\ InnerFrame
    /\ \E i \in 1..Len(meta_path) :
          meta_path' = SubSeq(meta_path, 1, i - 1)
                          \o SubSeq(meta_path, i + 1, Len(meta_path))
    /\ UNCHANGED <<modules, collector, reports>>

\* pytest reports one phase of one test to the collector plugin
InnerReport ==
    /\ InnerFrame
    /\ \E report \in Reports :
          /\ collector' = pytest_runtest_logreport(collector, report)
          /\ reports' = Append(reports, report)
    /\ UNCHANGED <<meta_path, modules>>

\* runner.py:160-231 for one way pytest.main() ends:
\*   "returned"   it returned
\*   "crashed"    it raised an Exception (caught at runner.py:163)
\*   "propagated" it raised a BaseException that is no Exception
RunEndAs(how) ==
    /\ pc = "running"
    /\ LET mp1 == RestoreMetaPath(meta_path, saved_meta_path)
           mods1 == RestoreModules(modules, saved_modules)
       IN /\ meta_path' = CleanupMetaPath(mp1, OwnFinder)
          /\ modules' = CleanupModules(mods1)
    /\ result' = CASE how = "returned" -> NormalResult(collector)
                   [] how = "crashed" -> CrashResult(collector)
                   [] OTHER -> NoResult
    /\ exit' = how
    /\ pc' = "done"
    /\ UNCHANGED <<start_meta_path, start_modules, saved_meta_path,
                   saved_modules, collector, reports, steps>>
    /\ UNCHANGED <<applierVars, registryVars, engineVars, tracerVars, pluginVars, enricherVars, cleanupVars>>

RunReturn == RunEndAs("returned")
RunCrash == RunEndAs("crashed")
RunPropagate == RunEndAs("propagated")

Next ==
    \/ RunBegin
    \/ InnerImport
    \/ InnerEvict
    \/ InnerInsertHook
    \/ InnerRemoveFinder
    \/ InnerReport
    \/ RunReturn
    \/ RunCrash
    \/ RunPropagate

Spec == Init /\ [][Next]_vars

(***************************************************************************)
(* Claims about run_tests_for_mutant (checked under Spec).                *)
(***************************************************************************)
NotMutating(f) == ~IsMutatingFinder(f)
IsTargetOrSub(n) ==
    \E i \in 1..Len(module_names) :
        n = module_names[i] \/ IsSubmoduleOf(n, module_names[i])
Evictable(mods, n) ==
    mods[n].file # <<>> /\ UnderCwd(mods[n].file) /\ ~KeepPrefixed(n)

\* C1 (as stated): after run_tests_for_mutant returns, by any exit path,
\* sys.meta_path and sys.modules equal their contents at the moment the
\* call began.
C1_SameAsAtCallStart ==
    pc = "done" => meta_path = start_meta_path /\ modules = start_modules

\* C1 (amended): after run_tests_for_mutant returns, by any exit path, the
\* loader chain is the chain of the call's start without its
\* MutatingFinders, and the module cache is the cache of the call's start
\* except that target modules, their submodules and the evictable
\* working-directory modules are absent, modules the inner run newly loaded
\* from outside the working directory are kept, and the stdlib path
\* modules are present.
C1_CleanBaseline ==
    pc = "done" =>
        /\ meta_path = SelectSeq(start_meta_path, NotMutating)
        /\ \A n \in ModuleNames :
              IF IsTargetOrSub(n)
              THEN n \notin Cached(modules)
              ELSE IF n \in Cached(start_modules) /\ ~Evictable(start_modules, n)
                   THEN n \in Cached(modules) /\ modules[n] = start_modules[n]
                   ELSE n \in Cached(modules) =>
                           /\ ~UnderCwd(modules[n].file)
                           /\ modules[n].gen = 1 \/ n \in StdlibPathModules
        /\ StdlibPathModules \subseteq Cached(modules)

\* C1 witness: a call has returned after the inner run did something; at
\* the start a target module and a stale finder were present, and a module
\* from outside the working directory was cached and still is.
C1_Witness ==
    /\ pc = "done"
    /\ steps > 0
    /\ JsonModule \in Cached(start_modules)
    /\ JsonModule \in Cached(modules)
    /\ TargetName \in Cached(start_modules)
    /\ TargetName \notin Cached(modules)
    /\ StaleFinder \in SeqSet(start_meta_path)

\* C2: on every exit path no MutatingFinder is in the loader chain when
\* the call returns, stale ones included, and every other finder of the
\* chain before the call is still there in the same order.
C2_NoMutatingFinderLeft ==
    pc = "done" =>
        /\ \A i \in 1..Len(meta_path) : ~IsMutatingFinder(meta_path[i])
        /\ meta_path = SelectSeq(start_meta_path, NotMutating)

\* C2 witness: the harness raised, and a stale MutatingFinder was in the
\* chain before the call.
C2_Witness ==
    /\ pc = "done"
    /\ exit \in {"crashed", "propagated"}
    /\ StaleFinder \in SeqSet(start_meta_path)
    /\ StaleFinder \notin SeqSet(meta_path)

\* C3: if the test invocation raises an exception, the call returns a
\* MutantResult with killed = True, killing_test = "<crashed>" and
\* killing_tests = ["<crashed>"], and the restore steps have run.
C3_CrashIsKill ==
    (pc = "done" /\ exit = "crashed") =>
        /\ result # NoResult
        /\ result.killed = TRUE
        /\ result.killing_test = "<crashed>"
        /\ result.killing_tests = <<"<crashed>">>
        /\ \A i \in 1..Len(meta_path) :
              meta_path[i] \in SeqSet(start_meta_path) /\ meta_path[i] # OwnFinder
        /\ \A n \in Cached(saved_modules) :
              n \in Cached(modules) /\ modules[n] = saved_modules[n]
        /\ \A n \in Cached(modules) \ Cached(saved_modules) :
              ~UnderCwd(modules[n].file)

\* C3 witness: the harness raised after some tests had run and after the
\* inner run had changed the chain and the cache.
C3_Witness ==
    /\ pc = "done"
    /\ exit = "crashed"
    /\ result.tests_run > 0
    /\ steps = MaxInnerSteps
    /\ result.killing_test = "<crashed>"

FailedCalls ==
    {i \in 1..Len(reports) :
        reports[i].when = "call" /\ reports[i].outcome = "failed"}
PhaseErrors ==
    {i \in 1..Len(reports) :
        reports[i].when \in {"setup", "teardown"} /\ reports[i].outcome = "failed"}
First(S) == CHOOSE i \in S : \A j \in S : i <= j

\* C4: for a run that did not crash the harness, killed is true exactly
\* when a test failed in its call phase or errored in setup or teardown;
\* killing_test is the first call-phase failure if there is one, otherwise
\* the first setup/teardown error, otherwise None.
C4_KilledAndKillingTest ==
    (pc = "done" /\ exit = "returned") =>
        /\ result.killed = (FailedCalls # {} \/ PhaseErrors # {})
        /\ result.killing_test =
              IF FailedCalls # {} THEN reports[First(FailedCalls)].nodeid
              ELSE IF PhaseErrors # {} THEN reports[First(PhaseErrors)].nodeid
              ELSE NoneValue

\* C4 witness: a setup error of one test came before the call-phase
\* failure of another, and the failure is the killing test.
C4_Witness ==
    /\ pc = "done"
    /\ exit = "returned"
    /\ Len(reports) = 2
    /\ reports[1] = [when |-> "setup", outcome |-> "failed", nodeid |-> "t2"]
    /\ reports[2] = [when |-> "call", outcome |-> "failed", nodeid |-> "t1"]
    /\ result.killing_test = "t1"

(***************************************************************************)
(* OPERATOR REGISTRY (operators.py).                                      *)
(***************************************************************************)
\* MutationPoint (models.py:9-19); inferred_type None is NoneValue
MutationPoint(file_path, module_name, lineno, col_offset, node_type, original_op, inferred_type) ==
    [file_path |-> file_path, module_name |-> module_name, lineno |-> lineno,
     col_offset |-> col_offset, node_type |-> node_type,
     original_op |-> original_op, inferred_type |-> inferred_type]

\* Mutant (models.py:22-28)
Mutant(point, replacement_op, mutant_id) ==
    [point |-> point, replacement_op |-> replacement_op, mutant_id |-> mutant_id]

UNTYPED_MUTATIONS ==
    (<<"BinOp", "Add">> :> <<"Sub", "Mult">>)
    @@ (<<"BinOp", "Sub">> :> <<"Add", "Mult">>)
    @@ (<<"BinOp", "Mult">> :> <<"Add", "FloorDiv">>)
    @@ (<<"BinOp", "Div">> :> <<"Mult", "FloorDiv">>)
    @@ (<<"BinOp", "FloorDiv">> :> <<"Div", "Mult">>)
    @@ (<<"BinOp", "Mod">> :> <<"FloorDiv", "Mult">>)
    @@ (<<"BinOp", "Pow">> :> <<"Mult">>)
    @@ (<<"BinOp", "BitAnd">> :> <<"BitOr", "BitXor">>)
    @@ (<<"BinOp", "BitOr">> :> <<"BitAnd", "BitXor">>)
    @@ (<<"BinOp", "BitXor">> :> <<"BitAnd", "BitOr">>)
    @@ (<<"BinOp", "LShift">> :> <<"RShift">>)
    @@ (<<"BinOp", "RShift">> :> <<"LShift">>)
    @@ (<<"AugAssign", "Add">> :> <<"Sub", "Mult">>)
    @@ (<<"AugAssign", "Sub">> :> <<"Add", "Mult">>)
    @@ (<<"AugAssign", "Mult">> :> <<"Add", "FloorDiv">>)
    @@ (<<"AugAssign", "Div">> :> <<"Mult", "FloorDiv">>)
    @@ (<<"AugAssign", "FloorDiv">> :> <<"Div", "Mult">>)
    @@ (<<"AugAssign", "Mod">> :> <<"FloorDiv", "Mult">>)
    @@ (<<"AugAssign", "Pow">> :> <<"Mult">>)
    @@ (<<"AugAssign", "BitAnd">> :> <<"BitOr", "BitXor">>)
    @@ (<<"AugAssign", "BitOr">> :> <<"BitAnd", "BitXor">>)
    @@ (<<"AugAssign", "BitXor">> :> <<"BitAnd", "BitOr">>)
    @@ (<<"AugAssign", "LShift">> :> <<"RShift">>)
    @@ (<<"AugAssign", "RShift">> :> <<"LShift">>)
    @@ (<<"Compare", "Eq">> :> <<"NotEq">>)
    @@ (<<"Compare", "NotEq">> :> <<"Eq">>)
    @@ (<<"Compare", "Lt">> :> <<"LtE", "GtE">>)
    @@ (<<"Compare", "LtE">> :> <<"Lt", "Gt">>)
    @@ (<<"Compare", "Gt">> :> <<"GtE", "LtE">>)
    @@ (<<"Compare", "GtE">> :> <<"Gt", "Lt">>)
    @@ (<<"Compare", "Is">> :> <<"IsNot">>)
    @@ (<<"Compare", "IsNot">> :> <<"Is">>)
    @@ (<<"Compare", "In">> :> <<"NotIn">>)
    @@ (<<"Compare", "NotIn">> :> <<"In">>)
    @@ (<<"BoolOp", "And">> :> <<"Or">>)
    @@ (<<"BoolOp", "Or">> :> <<"And">>)
    @@ (<<"UnaryOp", "USub">> :> <<"UAdd">>)
    @@ (<<"UnaryOp", "UAdd">> :> <<"USub">>)
    @@ (<<"UnaryOp", "Not">> :> <<"_remove">>)
    @@ (<<"IfExp", "ternary">> :> <<"swap_branches", "always_true", "always_false">>)
    @@ (<<"Break", "break">> :> <<"continue">>)
    @@ (<<"Continue", "continue">> :> <<"break">>)
    @@ (<<"ExceptHandler", "typed">> :> <<"broaden", "body_to_raise">>)
    @@ (<<"ExceptHandler", "typed_broadest">> :> <<"body_to_raise">>)
    @@ (<<"ExceptHandler", "typed_raise_body">> :> <<"broaden">>)
    @@ (<<"ExceptHandler", "bare">> :> <<"body_to_raise">>)
    @@ (<<"Return", "True">> :> <<"False">>)
    @@ (<<"Return", "False">> :> <<"True">>)
    @@ (<<"Return", "None">> :> <<"expr">>)
    @@ (<<"Return", "expr">> :> <<"None">>)
    @@ (<<"Return", "int_literal">> :> <<"negate">>)
    @@ (<<"Return", "float_literal">> :> <<"negate">>)
    @@ (<<"Return", "str_literal">> :> <<"empty_str">>)
    @@ (<<"Return", "negation">> :> <<"remove_negation">>)

TYPED_MUTATIONS ==
    (<<"BinOp", "Add", "int">> :> <<"Sub", "Mult", "FloorDiv">>)
    @@ (<<"BinOp", "Sub", "int">> :> <<"Add", "Mult">>)
    @@ (<<"BinOp", "Mult", "int">> :> <<"Add", "FloorDiv">>)
    @@ (<<"BinOp", "Div", "int">> :> <<"Mult", "FloorDiv">>)
    @@ (<<"BinOp", "FloorDiv", "int">> :> <<"Mult", "Add">>)
    @@ (<<"BinOp", "Mod", "int">> :> <<"FloorDiv">>)
    @@ (<<"BinOp", "Pow", "int">> :> <<"Mult">>)
    @@ (<<"BinOp", "BitAnd", "int">> :> <<"BitOr", "BitXor">>)
    @@ (<<"BinOp", "BitOr", "int">> :> <<"BitAnd", "BitXor">>)
    @@ (<<"BinOp", "BitXor", "int">> :> <<"BitAnd", "BitOr">>)
    @@ (<<"BinOp", "LShift", "int">> :> <<"RShift">>)
    @@ (<<"BinOp", "RShift", "int">> :> <<"LShift">>)
    @@ (<<"AugAssign", "Add", "int">> :> <<"Sub", "Mult", "FloorDiv">>)
    @@ (<<"AugAssign", "Sub", "int">> :> <<"Add", "Mult">>)
    @@ (<<"AugAssign", "Mult", "int">> :> <<"Add", "FloorDiv">>)
    @@ (<<"AugAssign", "Div", "int">> :> <<"Mult", "FloorDiv">>)
    @@ (<<"AugAssign", "FloorDiv", "int">> :> <<"Mult", "Add">>)
    @@ (<<"AugAssign", "Mod", "int">> :> <<"FloorDiv">>)
    @@ (<<"AugAssign", "Pow", "int">> :> <<"Mult">>)
    @@ (<<"AugAssign", "BitAnd", "int">> :> <<"BitOr", "BitXor">>)
    @@ (<<"AugAssign", "BitOr", "int">> :> <<"BitAnd", "BitXor">>)
    @@ (<<"AugAssign", "BitXor", "int">> :> <<"BitAnd", "BitOr">>)
    @@ (<<"AugAssign", "LShift", "int">> :> <<"RShift">>)
    @@ (<<"AugAssign", "RShift", "int">> :> <<"LShift">>)
    @@ (<<"AugAssign", "Add", "float">> :> <<"Sub", "Mult", "Div">>)
    @@ (<<"AugAssign", "Sub", "float">> :> <<"Add", "Mult">>)
    @@ (<<"AugAssign", "Mult", "float">> :> <<"Add", "Div">>)
    @@ (<<"AugAssign", "Div", "float">> :> <<"Mult", "Sub">>)
    @@ (<<"AugAssign", "Pow", "float">> :> <<"Mult">>)
    @@ (<<"AugAssign", "Add", "str">> :> <<>>)
    @@ (<<"AugAssign", "BitAnd", "bool">> :> <<"BitOr">>)
    @@ (<<"AugAssign", "BitOr", "bool">> :> <<"BitAnd">>)
    @@ (<<"AugAssign", "BitXor", "bool">> :> <<"BitAnd", "BitOr">>)
    @@ (<<"BinOp", "Add", "float">> :> <<"Sub", "Mult", "Div">>)
    @@ (<<"BinOp", "Sub", "float">> :> <<"Add", "Mult">>)
    @@ (<<"BinOp", "Mult", "float">> :> <<"Add", "Div">>)
    @@ (<<"BinOp", "Div", "float">> :> <<"Mult", "Sub">>)
    @@ (<<"BinOp", "Pow", "float">> :> <<"Mult">>)
    @@ (<<"BinOp", "BitAnd", "bool">> :> <<"BitOr">>)
    @@ (<<"BinOp", "BitOr", "bool">> :> <<"BitAnd">>)
    @@ (<<"BinOp", "BitXor", "bool">> :> <<"BitAnd", "BitOr">>)
    @@ (<<"BinOp", "Add", "str">> :> <<>>)
    @@ (<<"BinOp", "Mult", "str">> :> <<>>)
    @@ (<<"Return", "True", "bool">> :> <<"False">>)
    @@ (<<"Return", "False", "bool">> :> <<"True">>)
    @@ (<<"Return", "expr", "bool">> :> <<"negate_expr">>)
    @@ (<<"Return", "None", "Optional[int]">> :> <<"expr">>)
    @@ (<<"Return", "None", "Optional[str]">> :> <<"expr">>)
    @@ (<<"Return", "expr", "Optional[int]">> :> <<"None">>)
    @@ (<<"Return", "expr", "Optional[str]">> :> <<"None">>)
    @@ (<<"Return", "None", "Optional[float]">> :> <<"expr">>)
    @@ (<<"Return", "expr", "Optional[float]">> :> <<"None">>)
    @@ (<<"Compare", "Lt", "int">> :> <<"LtE", "GtE">>)
    @@ (<<"Compare", "LtE", "int">> :> <<"Lt", "Gt">>)
    @@ (<<"Compare", "Gt", "int">> :> <<"GtE", "LtE">>)
    @@ (<<"Compare", "GtE", "int">> :> <<"Gt", "Lt">>)
    @@ (<<"Compare", "Eq", "int">> :> <<"NotEq">>)
    @@ (<<"Compare", "NotEq", "int">> :> <<"Eq">>)
    @@ (<<"Compare", "Lt", "float">> :> <<"LtE", "GtE">>)
    @@ (<<"Compare", "LtE", "float">> :> <<"Lt", "Gt">>)
    @@ (<<"Compare", "Gt", "float">> :> <<"GtE", "LtE">>)
    @@ (<<"Compare", "GtE", "float">> :> <<"Gt", "Lt">>)
    @@ (<<"Compare", "Eq", "float">> :> <<"NotEq">>)
    @@ (<<"Compare", "NotEq", "float">> :> <<"Eq">>)
    @@ (<<"Compare", "In", "str">> :> <<"NotIn">>)
    @@ (<<"Compare", "NotIn", "str">> :> <<"In">>)
    @@ (<<"BoolOp", "And", "bool">> :> <<"Or">>)
    @@ (<<"BoolOp", "Or", "bool">> :> <<"And">>)
    @@ (<<"UnaryOp", "USub", "int">> :> <<"UAdd">>)
    @@ (<<"UnaryOp", "UAdd", "int">> :> <<"USub">>)
    @@ (<<"UnaryOp", "USub", "float">> :> <<"UAdd">>)
    @@ (<<"UnaryOp", "UAdd", "float">> :> <<"USub">>)
    @@ (<<"UnaryOp", "Not", "bool">> :> <<"_remove">>)
    @@ (<<"Return", "int_literal", "int">> :> <<"negate">>)
    @@ (<<"Return", "float_literal", "float">> :> <<"negate">>)
    @@ (<<"Return", "negation", "int">> :> <<"remove_negation">>)
    @@ (<<"Return", "negation", "float">> :> <<"remove_negation">>)
    @@ (<<"Return", "expr", "int">> :> <<"negate_expr">>)
    @@ (<<"Return", "expr", "float">> :> <<"negate_expr">>)
    @@ (<<"Return", "str_literal", "str">> :> <<"empty_str">>)

\* Python truthiness of point.inferred_type: None and "" are false
Truthy(t) == t # NoneValue /\ t # ""

\* dict.get(key, [])
UntypedLookup(node_type, original_op) ==
    IF <<node_type, original_op>> \in DOMAIN UNTYPED_MUTATIONS
    THEN UNTYPED_MUTATIONS[<<node_type, original_op>>]
    ELSE <<>>

\* mutations_for where an empty typed list falls through to the untyped one
mutations_for_SkipEmptyTyped(point, types) ==
    LET key == <<point.node_type, point.original_op, point.inferred_type>>
    IN IF types /\ Truthy(point.inferred_type)
          /\ key \in DOMAIN TYPED_MUTATIONS /\ TYPED_MUTATIONS[key] # <<>>
       THEN TYPED_MUTATIONS[key]
       ELSE UntypedLookup(point.node_type, point.original_op)

\* operators.py:176-185
mutations_for(point, types) ==
    LET key == <<point.node_type, point.original_op, point.inferred_type>>
    IN IF types /\ Truthy(point.inferred_type) /\ key \in DOMAIN TYPED_MUTATIONS
       THEN TYPED_MUTATIONS[key]
       ELSE UntypedLookup(point.node_type, point.original_op)

RECURSIVE PrunedLoop(_, _)
\* operators.py:193-198, the loop over the points
PrunedLoop(pts, acc) ==
    IF pts = <<>> THEN acc
    ELSE LET untyped == mutations_for(Head(pts), FALSE)
             typed == mutations_for(Head(pts), TRUE)
         IN PrunedLoop(Tail(pts), acc + (Len(untyped) - Len(typed)))

RECURSIVE PrunedLoop_Clamped(_, _)
\* the loop with a point's difference never counted below zero
PrunedLoop_Clamped(pts, acc) ==
    IF pts = <<>> THEN acc
    ELSE LET untyped == mutations_for(Head(pts), FALSE)
             typed == mutations_for(Head(pts), TRUE)
             d == Len(untyped) - Len(typed)
         IN PrunedLoop_Clamped(Tail(pts), acc + (IF d < 0 THEN 0 ELSE d))

\* count_pruned whose sum cannot go below zero
count_pruned_Clamped(pts, types) ==
    IF ~types THEN 0 ELSE PrunedLoop_Clamped(pts, 0)

\* operators.py:188-198
count_pruned(pts, types) ==
    IF ~types THEN 0 ELSE PrunedLoop(pts, 0)

(***************************************************************************)
(* mutations_for and count_pruned on lists of points.                     *)
(***************************************************************************)
\* the inferred types the type extractor can give, None, and ""
InferredTypes ==
    {NoneValue, "", "int", "float", "str", "bool", "Optional[int]",
     "Optional[str]", "Optional[float]", "list"}

\* every (node kind, original op) of the untyped table, and three that
\* are in no table
PointKeys ==
    DOMAIN UNTYPED_MUTATIONS
        \cup {<<"Return", "zero_int_literal">>, <<"Return", "empty_str_literal">>,
              <<"Lambda", "lambda">>}

RegPoint(key, type) ==
    MutationPoint("target.py", "target", 1, 0, key[1], key[2], type)

AllRegPoints == {RegPoint(key, t) : key \in PointKeys, t \in InferredTypes}

\* the points that lists are built from: typing adds a candidate, removes
\* all, removes one, changes nothing, has no typed rule, has no rule at all
SamplePoints ==
    { RegPoint(<<"BinOp", "Add">>, "int"),
      RegPoint(<<"BinOp", "Add">>, "str"),
      RegPoint(<<"BinOp", "Mod">>, "int"),
      RegPoint(<<"Compare", "Lt">>, "int"),
      RegPoint(<<"Return", "expr">>, NoneValue),
      RegPoint(<<"Return", "zero_int_literal">>, "int") }

RECURSIVE SeqsUpTo(_, _)
\* the sequences over S of length at most n
SeqsUpTo(S, n) ==
    IF n = 0 THEN {<<>>}
    ELSE LET shorter == SeqsUpTo(S, n - 1)
         IN shorter \cup {Append(q, x) : q \in shorter, x \in S}

InitRegistry ==
    /\ rpc = "ready"
    /\ reg_points \in SeqsUpTo(SamplePoints, MaxPoints)
                         \cup {<<p>> : p \in AllRegPoints}
    /\ use_types \in BOOLEAN
    /\ reg_out = <<>>
    /\ pruned = 0
    /\ RunnerOff
    /\ ApplierOff
    /\ EngineOff
    /\ TracerOff
    /\ PluginOff
    /\ EnricherOff
    /\ CleanupOff

\* mutations_for(point, use_types) on the first point of the list
CallMutationsFor ==
    /\ rpc = "ready"
    /\ reg_points # <<>>
    /\ reg_out' = mutations_for(reg_points[1], use_types)
    /\ rpc' = "looked_up"
    /\ UNCHANGED <<reg_points, use_types, pruned>>
    /\ UNCHANGED <<runnerVars, applierVars, engineVars, tracerVars, pluginVars, enricherVars, cleanupVars>>

\* count_pruned(points, use_types)
CallCountPruned ==
    /\ rpc = "ready"
    /\ pruned' = count_pruned(reg_points, use_types)
    /\ rpc' = "counted"
    /\ UNCHANGED <<reg_points, use_types, reg_out>>
    /\ UNCHANGED <<runnerVars, applierVars, engineVars, tracerVars, pluginVars, enricherVars, cleanupVars>>

NextRegistry ==
    \/ CallMutationsFor
    \/ CallCountPruned

SpecRegistry == InitRegistry /\ [][NextRegistry]_vars

(***************************************************************************)
(* Claims about the registry (checked under SpecRegistry).                *)
(***************************************************************************)
HasTypedRule(p) ==
    /\ p.inferred_type \notin {NoneValue, ""}
    /\ <<p.node_type, p.original_op, p.inferred_type>> \in DOMAIN TYPED_MUTATIONS

UntypedList(p) ==
    IF <<p.node_type, p.original_op>> \in DOMAIN UNTYPED_MUTATIONS
    THEN UNTYPED_MUTATIONS[<<p.node_type, p.original_op>>]
    ELSE <<>>

TypedList(p) ==
    IF HasTypedRule(p)
    THEN TYPED_MUTATIONS[<<p.node_type, p.original_op, p.inferred_type>>]
    ELSE UntypedList(p)

\* C9: mutations_for returns the typed-table list for (node kind, original
\* op, inferred type) whenever use_types is true, the point has an inferred
\* type and that key is in the typed table, even when that list is empty;
\* in every other case it returns the untyped-table list for (node kind,
\* original op), or the empty list when that key is absent too.
C9_TypedThenUntyped ==
    rpc = "looked_up" =>
        LET p == reg_points[1]
        IN IF use_types /\ HasTypedRule(p)
           THEN reg_out = TYPED_MUTATIONS[<<p.node_type, p.original_op,
                                            p.inferred_type>>]
           ELSE reg_out = UntypedList(p)

\* C9 witness: a typed lookup returned the empty typed list although the
\* untyped table has candidates for the point.
C9_Witness ==
    /\ rpc = "looked_up"
    /\ use_types
    /\ HasTypedRule(reg_points[1])
    /\ reg_out = <<>>
    /\ UntypedList(reg_points[1]) # <<>>

RECURSIVE SumRemoved(_)
\* candidates typing removes, summed over the points
SumRemoved(pts) ==
    IF pts = <<>> THEN 0
    ELSE LET d == Len(UntypedList(Head(pts))) - Len(TypedList(Head(pts)))
         IN (IF d > 0 THEN d ELSE 0) + SumRemoved(Tail(pts))

RECURSIVE SumAdded(_)
\* candidates typing adds, summed over the points
SumAdded(pts) ==
    IF pts = <<>> THEN 0
    ELSE LET d == Len(TypedList(Head(pts))) - Len(UntypedList(Head(pts)))
         IN (IF d > 0 THEN d ELSE 0) + SumAdded(Tail(pts))

\* C10: count_pruned is the sum over the points of (untyped mutations -
\* typed mutations) when use_types is true, 0 when use_types is false or
\* the list is empty, and negative whenever typing adds more candidates
\* than it removes.
C10_PrunedIsSignedSum ==
    rpc = "counted" =>
        /\ use_types => pruned = SumRemoved(reg_points) - SumAdded(reg_points)
        /\ (~use_types \/ reg_points = <<>>) => pruned = 0
        /\ (use_types /\ SumAdded(reg_points) > SumRemoved(reg_points))
              => pruned < 0

\* C10 witness: on a list where typing both removes and adds candidates,
\* it adds more, and the count is negative.
C10_Witness ==
    /\ rpc = "counted"
    /\ use_types
    /\ SumRemoved(reg_points) > 0
    /\ SumAdded(reg_points) > SumRemoved(reg_points)
    /\ pruned < 0

(***************************************************************************)
(* PARSED TREES.  A node is a record                                      *)
(*   kind        the ast class name                                       *)
(*   loc         whether the node has lineno / col_offset attributes      *)
(*   lineno, col_offset                                                   *)
(*   ops         the operator names of the node (op, or ops of a Compare) *)
(*   val         Constant: the literal; Name: the id; ExceptHandler:      *)
(*               "typed" when kids[1] is its type filter                  *)
(*   kids        the child nodes, in the order generic_visit meets them   *)
(***************************************************************************)
Node(kind, lineno, col, ops, val, kids) ==
    [kind |-> kind, loc |-> TRUE, lineno |-> lineno, col_offset |-> col,
     ops |-> ops, val |-> val, kids |-> kids]

\* a node made by a constructor call such as ast.Constant(value=False):
\* it has no position until fix_missing_locations gives it one
NewNode(kind, ops, val, kids) ==
    [kind |-> kind, loc |-> FALSE, lineno |-> 0, col_offset |-> 0,
     ops |-> ops, val |-> val, kids |-> kids]

Name(lineno, col) == Node("Name", lineno, col, <<>>, "x", <<>>)

(***************************************************************************)
(* What ast.parse gives for the sources of the model.  An expression is   *)
(* written as the sequence of its constructors from the outermost in; the *)
(* innermost operand is the name x.  Each constructor takes the rest of   *)
(* the expression as its first operand:                                   *)
(*   AddL  e + x      BitAndL  e & x      Lt  e < x     LtChain e < x < x  *)
(*   AndL  e and x    OrL  e or x         USub  -e      Not  not e         *)
(*   IfExp  e if x else x                                                 *)
(* An operand is parenthesised when Python's grammar needs it, and then   *)
(* starts one column after the node it is an operand of.                  *)
(***************************************************************************)
Ctors == {"AddL", "BitAndL", "Lt", "LtChain", "AndL", "OrL", "USub", "Not", "IfExp"}

\* binding strength of the expression a constructor builds
Prec(c) ==
    CASE c = "IfExp" -> 1
      [] c = "OrL" -> 2
      [] c = "AndL" -> 3
      [] c = "Not" -> 4
      [] c \in {"Lt", "LtChain"} -> 5
      [] c = "BitAndL" -> 8
      [] c = "AddL" -> 10
      [] c = "USub" -> 12
      [] OTHER -> 14

\* the weakest expression a constructor takes as first operand unparenthesised
MinPrec(c) ==
    CASE c = "IfExp" -> 2
      [] c = "OrL" -> 3
      [] c = "AndL" -> 4
      [] c = "Not" -> 4
      [] c \in {"Lt", "LtChain"} -> 6
      [] c = "BitAndL" -> 8
      [] c = "AddL" -> 10
      [] c = "USub" -> 12
      [] OTHER -> 14

ShapePrec(shape) == IF shape = <<>> THEN 14 ELSE Prec(Head(shape))
NeedsParens(c, sub) == ShapePrec(sub) < MinPrec(c)

\* columns from the start of the first operand to the start of the next one
Gap(c) ==
    CASE c \in {"AddL", "BitAndL", "Lt", "LtChain"} -> 3
      [] c = "AndL" -> 5
      [] c \in {"OrL", "IfExp"} -> 4
      [] OTHER -> 0

\* columns a prefix operator takes before its operand
Lead(c) ==
    CASE c = "USub" -> 1
      [] c = "Not" -> 4
      [] OTHER -> 0

RECURSIVE Width(_)
\* the number of columns the text of an expression takes
Width(shape) ==
    IF shape = <<>> THEN 1
    ELSE LET c == Head(shape)
             w == Width(Tail(shape)) + (IF NeedsParens(c, Tail(shape)) THEN 2 ELSE 0)
         IN CASE c \in {"USub", "Not"} -> Lead(c) + w
              [] c = "LtChain" -> w + Gap(c) + 1 + 3 + 1
              [] c = "IfExp" -> w + Gap(c) + 1 + 6 + 1
              [] OTHER -> w + Gap(c) + 1

RECURSIVE PlaceExpr(_, _, _)
\* the expression's tree when its text starts at (lineno, col)
PlaceExpr(shape, lineno, col) ==
    IF shape = <<>> THEN Name(lineno, col)
    ELSE LET c == Head(shape)
             par == IF NeedsParens(c, Tail(shape)) THEN 1 ELSE 0
             w == Width(Tail(shape)) + 2 * par
             sub == PlaceExpr(Tail(shape), lineno, col + Lead(c) + par)
             nxt == col + w + Gap(c)
         IN CASE c = "AddL" ->
                   Node("BinOp", lineno, col, <<"Add">>, "", <<sub, Name(lineno, nxt)>>)
              [] c = "BitAndL" ->
                   Node("BinOp", lineno, col, <<"BitAnd">>, "", <<sub, Name(lineno, nxt)>>)
              [] c = "Lt" ->
                   Node("Compare", lineno, col, <<"Lt">>, "", <<sub, Name(lineno, nxt)>>)
              [] c = "LtChain" ->
                   Node("Compare", lineno, col, <<"Lt", "Lt">>, "",
                        <<sub, Name(lineno, nxt), Name(lineno, nxt + 4)>>)
              [] c = "AndL" ->
                   Node("BoolOp", lineno, col, <<"And">>, "", <<sub, Name(lineno, nxt)>>)
              [] c = "OrL" ->
                   Node("BoolOp", lineno, col, <<"Or">>, "", <<sub, Name(lineno, nxt)>>)
              [] c = "USub" ->
                   Node("UnaryOp", lineno, col, <<"USub">>, "", <<sub>>)
              [] c = "Not" ->
                   Node("UnaryOp", lineno, col, <<"Not">>, "", <<sub>>)
              [] OTHER ->
                   \* IfExp: _fields are (test, body, orelse)
                   Node("IfExp", lineno, col, <<>>, "",
                        <<Name(lineno, nxt), sub, Name(lineno, nxt + 7)>>)

\* the literals a return statement of the model returns
Literals == {"True", "False", "None", "5", "0", "1.5", "0.0", "'s'", "''"}

\* the exception filters of a handler: none, Exception, another name, a tuple
HandlerFilters == {"none", "Exception", "ValueError", "tuple"}
\* the bodies of a handler: raise, raise x, pass, pass; raise
HandlerBodies == {"raise", "raise_exc", "pass", "pass_raise"}

\* The statements of the model; body is where a function body starts.
\*   return_expr   return <shape>
\*   return_bare   return
\*   return_const  return <literal>
\*   augassign     x <op>= <shape>
\*   loop          while x: / <break or continue>
\*   try           try: / pass / except <filter>: / <body>
Stmt(form, shape, arg) == [form |-> form, shape |-> shape, arg |-> arg]

RECURSIVE ShapesUpTo(_)
ShapesUpTo(d) ==
    IF d = 0 THEN {<<>>}
    ELSE LET inner == ShapesUpTo(d - 1)
         IN inner \cup {<<c>> \o sh : c \in Ctors, sh \in inner}

Stmts ==
    {Stmt("return_expr", sh, <<>>) : sh \in ShapesUpTo(MaxDepth)}
    \cup {Stmt("return_bare", <<>>, <<>>)}
    \cup {Stmt("return_const", <<>>, <<lit>>) : lit \in Literals}
    \cup {Stmt("augassign", sh, <<op>>) :
             sh \in ShapesUpTo(MaxDepth - 1), op \in {"Add", "BitAnd"}}
    \cup {Stmt("loop", <<>>, <<k>>) : k \in {"Break", "Continue"}}
    \cup {Stmt("try", <<>>, <<f, b>>) : f \in HandlerFilters, b \in HandlerBodies}

\* how many lines a statement takes
StmtLines(st) ==
    CASE st.form = "loop" -> 2
      [] st.form = "try" -> 4
      [] OTHER -> 1

HandlerFilter(f, lineno, col) ==
    CASE f = "none" -> <<>>
      [] f = "tuple" ->
           <<Node("Tuple", lineno, col, <<>>, "",
                  <<Node("Name", lineno, col + 1, <<>>, "ValueError", <<>>),
                    Node("Name", lineno, col + 13, <<>>, "KeyError", <<>>)>>)>>
      [] OTHER -> <<Node("Name", lineno, col, <<>>, f, <<>>)>>

HandlerBody(b, lineno, col) ==
    CASE b = "raise" -> <<Node("Raise", lineno, col, <<>>, "", <<>>)>>
      [] b = "raise_exc" ->
           <<Node("Raise", lineno, col, <<>>, "", <<Name(lineno, col + 6)>>)>>
      [] b = "pass_raise" ->
           <<Node("Pass", lineno, col, <<>>, "", <<>>),
             Node("Raise", lineno, col + 6, <<>>, "", <<>>)>>
      [] OTHER -> <<Node("Pass", lineno, col, <<>>, "", <<>>)>>

\* the statement's tree when its text starts at (lineno, col)
PlaceStmt(st, lineno, col) ==
    CASE st.form = "return_expr" ->
           Node("Return", lineno, col, <<>>, "", <<PlaceExpr(st.shape, lineno, col + 7)>>)
      [] st.form = "return_bare" ->
           Node("Return", lineno, col, <<>>, "", <<>>)
      [] st.form = "return_const" ->
           Node("Return", lineno, col, <<>>, "",
                <<Node("Constant", lineno, col + 7, <<>>, st.arg[1], <<>>)>>)
      [] st.form = "augassign" ->
           Node("AugAssign", lineno, col, <<st.arg[1]>>, "",
                <<Name(lineno, col), PlaceExpr(st.shape, lineno, col + 5)>>)
      [] st.form = "loop" ->
           Node("While", lineno, col, <<>>, "",
                <<Name(lineno, col + 6),
                  Node(st.arg[1], lineno + 1, col + 4, <<>>, "", <<>>)>>)
      [] OTHER ->
           Node("Try", lineno, col, <<>>, "",
                <<Node("Pass", lineno + 1, col + 4, <<>>, "", <<>>),
                  Node("ExceptHandler", lineno + 2, col, <<>>,
                       IF st.arg[1] = "none" THEN "" ELSE "typed",
                       HandlerFilter(st.arg[1], lineno + 2, col + 7)
                          \o HandlerBody(st.arg[2], lineno + 3, col + 4))>>)

\* a second statement some sources have after the first: return x + x
Trailer == Stmt("return_expr", <<"AddL">>, <<>>)

\* ast.parse of "def f(x):" followed by the statements, one level in
Parse(stmts) ==
    LET first == PlaceStmt(stmts[1], 2, 4)
        body == IF Len(stmts) = 1 THEN <<first>>
                ELSE <<first, PlaceStmt(stmts[2], 2 + StmtLines(stmts[1]), 4)>>
    IN NewNode("Module", <<>>, "",
               <<Node("FunctionDef", 1, 0, <<>>, "f", body)>>)

\* one statement, or a statement that is not of the deepest and the trailer
Sources ==
    {<<st>> : st \in Stmts}
    \cup {<<st, Trailer>> : st \in {x \in Stmts : Len(x.shape) < MaxDepth}}

(***************************************************************************)
(* THE SCANNER (ast_analysis.py).  An ast.NodeVisitor: visit(node) runs   *)
(* the visit_<kind> method of the node's class, which appends the node's  *)
(* own points and then calls generic_visit, which visits the children.    *)
(***************************************************************************)
_BINOP_NAMES == {"Add", "Sub", "Mult", "Div", "FloorDiv", "Mod", "Pow", "BitAnd", "BitOr", "BitXor", "LShift", "RShift"}
_CMPOP_NAMES == {"Eq", "NotEq", "Lt", "LtE", "Gt", "GtE", "Is", "IsNot", "In", "NotIn"}
_BOOLOP_NAMES == {"And", "Or"}
_UNARYOP_NAMES == {"UAdd", "USub", "Not"}

\* the point the collector appends for a node
PointAt(node, node_type, original_op) ==
    MutationPoint("target.py", "target", node.lineno, node.col_offset,
                  node_type, original_op, NoneValue)

_classify_return_value(node) ==
    IF node.kind = "Constant" THEN
        CASE node.val = "True" -> "True"
          [] node.val = "False" -> "False"
          [] node.val = "None" -> "None"
          [] node.val = "0" -> "zero_int_literal"
          [] node.val = "5" -> "int_literal"
          [] node.val = "0.0" -> "zero_float_literal"
          [] node.val = "1.5" -> "float_literal"
          [] node.val = "''" -> "empty_str_literal"
          [] OTHER -> "str_literal"
    ELSE IF node.kind = "UnaryOp" /\ node.ops = <<"USub">> THEN "negation"
    ELSE "expr"

\* the points visit_Compare appends: one for each operator of the chain
RECURSIVE ComparePoints(_, _)
ComparePoints(node, ops) ==
    IF ops = <<>> THEN <<>>
    ELSE (IF Head(ops) \in _CMPOP_NAMES
          THEN <<PointAt(node, "Compare", Head(ops))>> ELSE <<>>)
         \o ComparePoints(node, Tail(ops))

\* visit_ExceptHandler that takes any one-statement raise for a bare re-raise
ExceptHandlerPoints_AnyRaise(node) ==
    LET has_type == node.val = "typed"
        type == IF has_type THEN node.kids[1] ELSE NewNode("none", <<>>, "", <<>>)
        body == IF has_type THEN Tail(node.kids) ELSE node.kids
        is_already_exception == has_type /\ type.kind = "Name" /\ type.val = "Exception"
        body_is_bare_raise == Len(body) = 1 /\ body[1].kind = "Raise"
    IN IF has_type THEN
           IF is_already_exception /\ body_is_bare_raise THEN <<>>
           ELSE IF is_already_exception
                THEN <<PointAt(node, "ExceptHandler", "typed_broadest")>>
           ELSE IF body_is_bare_raise
                THEN <<PointAt(node, "ExceptHandler", "typed_raise_body")>>
           ELSE <<PointAt(node, "ExceptHandler", "typed")>>
       ELSE IF ~body_is_bare_raise
            THEN <<PointAt(node, "ExceptHandler", "bare")>>
       ELSE <<>>

\* the points visit_ExceptHandler appends
ExceptHandlerPoints(node) ==
    LET has_type == node.val = "typed"
        type == IF has_type THEN node.kids[1] ELSE NewNode("none", <<>>, "", <<>>)
        body == IF has_type THEN Tail(node.kids) ELSE node.kids
        is_already_exception == has_type /\ type.kind = "Name" /\ type.val = "Exception"
        body_is_bare_raise ==
            Len(body) = 1 /\ body[1].kind = "Raise" /\ body[1].kids = <<>>
    IN IF has_type THEN
           IF is_already_exception /\ body_is_bare_raise THEN <<>>
           ELSE IF is_already_exception
                THEN <<PointAt(node, "ExceptHandler", "typed_broadest")>>
           ELSE IF body_is_bare_raise
                THEN <<PointAt(node, "ExceptHandler", "typed_raise_body")>>
           ELSE <<PointAt(node, "ExceptHandler", "typed")>>
       ELSE IF ~body_is_bare_raise
            THEN <<PointAt(node, "ExceptHandler", "bare")>>
       ELSE <<>>

\* what the visit_<kind> method of a node appends before it visits the children
OwnPoints(node) ==
    CASE node.kind = "BinOp" ->
           IF node.ops[1] \in _BINOP_NAMES
           THEN <<PointAt(node, "BinOp", node.ops[1])>> ELSE <<>>
      [] node.kind = "Compare" -> ComparePoints(node, node.ops)
      [] node.kind = "BoolOp" ->
           IF node.ops[1] \in _BOOLOP_NAMES
           THEN <<PointAt(node, "BoolOp", node.ops[1])>> ELSE <<>>
      [] node.kind = "UnaryOp" ->
           IF node.ops[1] \in _UNARYOP_NAMES
           THEN <<PointAt(node, "UnaryOp", node.ops[1])>> ELSE <<>>
      [] node.kind = "AugAssign" ->
           IF node.ops[1] \in _BINOP_NAMES
           THEN <<PointAt(node, "AugAssign", node.ops[1])>> ELSE <<>>
      [] node.kind = "IfExp" -> <<PointAt(node, "IfExp", "ternary")>>
      [] node.kind = "Break" -> <<PointAt(node, "Break", "break")>>
      [] node.kind = "Continue" -> <<PointAt(node, "Continue", "continue")>>
      [] node.kind = "ExceptHandler" -> ExceptHandlerPoints(node)
      [] node.kind = "Return" ->
           IF node.kids # <<>>
           THEN <<PointAt(node, "Return", _classify_return_value(node.kids[1]))>>
           ELSE <<>>
      [] OTHER -> <<>>

RECURSIVE Collect(_)
RECURSIVE CollectAll(_)
\* collector.visit(node): the points in the order they are appended
Collect(node) == OwnPoints(node) \o CollectAll(node.kids)

\* NodeVisitor.generic_visit: the children, in field order
CollectAll(kids) ==
    IF kids = <<>> THEN <<>> ELSE Collect(Head(kids)) \o CollectAll(Tail(kids))

find_mutation_points(src) == Collect(Parse(src))

RECURSIVE ExpandFrom(_, _, _, _)
\* the engine's loops over the points and over mutations_for of each point
ExpandFrom(pts, ops, types, mutant_id) ==
    IF pts = <<>> THEN <<>>
    ELSE IF ops = <<>>
         THEN IF Len(pts) = 1 THEN <<>>
              ELSE ExpandFrom(Tail(pts), mutations_for(pts[2], types), types, mutant_id)
    ELSE <<Mutant(Head(pts), Head(ops), mutant_id)>>
         \o ExpandFrom(pts, Tail(ops), types, mutant_id + 1)

ExpandMutants(pts, types) ==
    IF pts = <<>> THEN <<>>
    ELSE ExpandFrom(pts, mutations_for(pts[1], types), types, 0)

(***************************************************************************)
(* THE APPLIER (import_hook.py).  An ast.NodeTransformer: visit(node)     *)
(* runs visit_<kind>, whose return value replaces the node in its parent. *)
(* A visit is modelled as the pair of the node it returns and whether it  *)
(* set self.applied.                                                      *)
(***************************************************************************)
_OP_CLASSES == {"Add", "Sub", "Mult", "Div", "FloorDiv", "Mod", "Pow", "Eq", "NotEq", "Lt", "LtE", "Gt", "GtE", "Is", "IsNot", "In", "NotIn", "And", "Or", "UAdd", "USub", "Not"}

Visited(node, set_applied) == [node |-> node, applied |-> set_applied]

\* _matches that compares the line only
_matches_LineOnly(node, m) ==
    node.loc /\ node.lineno = m.point.lineno

\* _matches without the comparison of the line
_matches_ColumnOnly(node, m) ==
    node.loc /\ node.col_offset = m.point.col_offset

\* import_hook.py:49-55
_matches(node, m) ==
    /\ node.loc
    /\ node.lineno = m.point.lineno
    /\ node.col_offset = m.point.col_offset

RECURSIVE Visit(_, _)
RECURSIVE VisitAll(_, _)

\* NodeTransformer.generic_visit: each child is replaced by its visit
generic_visit(node, m) ==
    LET r == VisitAll(node.kids, m)
    IN Visited([node EXCEPT !.kids = r.kids], r.applied)

\* a visit method that changed the node (or not) and then calls generic_visit
ThenGeneric(node, set_applied, m) ==
    LET r == generic_visit(node, m)
    IN Visited(r.node, set_applied \/ r.applied)

visit_BinOp(node, m) ==
    IF _matches(node, m) /\ m.point.node_type = "BinOp"
          /\ m.replacement_op \in _OP_CLASSES
    THEN ThenGeneric([node EXCEPT !.ops = <<m.replacement_op>>], TRUE, m)
    ELSE ThenGeneric(node, FALSE, m)

visit_Compare(node, m) ==
    IF _matches(node, m) /\ m.point.node_type = "Compare"
          /\ m.replacement_op \in _OP_CLASSES
    THEN ThenGeneric([node EXCEPT !.ops = [i \in 1..Len(node.ops) |-> m.replacement_op]],
                     TRUE, m)
    ELSE ThenGeneric(node, FALSE, m)

visit_BoolOp(node, m) ==
    IF _matches(node, m) /\ m.point.node_type = "BoolOp"
          /\ m.replacement_op \in _OP_CLASSES
    THEN ThenGeneric([node EXCEPT !.ops = <<m.replacement_op>>], TRUE, m)
    ELSE ThenGeneric(node, FALSE, m)

visit_UnaryOp(node, m) ==
    IF _matches(node, m) /\ m.point.node_type = "UnaryOp"
    THEN IF m.replacement_op = "_remove"
         THEN Visited(node.kids[1], TRUE)
         ELSE IF m.replacement_op \in _OP_CLASSES
              THEN ThenGeneric([node EXCEPT !.ops = <<m.replacement_op>>], TRUE, m)
              ELSE ThenGeneric(node, FALSE, m)
    ELSE ThenGeneric(node, FALSE, m)

Constant(value) == NewNode("Constant", <<>>, value, <<>>)

_mutate_return(node, m) ==
    LET replacement == m.replacement_op
        has_value == node.kids # <<>>
    IN CASE replacement = "False" ->
              Visited([node EXCEPT !.kids = <<Constant("False")>>], TRUE)
         [] replacement = "True" ->
              Visited([node EXCEPT !.kids = <<Constant("True")>>], TRUE)
         [] replacement = "None" ->
              Visited([node EXCEPT !.kids = <<Constant("None")>>], TRUE)
         [] replacement = "negate" /\ has_value ->
              Visited([node EXCEPT !.kids =
                          <<NewNode("UnaryOp", <<"USub">>, "", <<node.kids[1]>>)>>], TRUE)
         [] replacement = "negate_expr" /\ has_value ->
              Visited([node EXCEPT !.kids =
                          <<NewNode("UnaryOp", <<"Not">>, "", <<node.kids[1]>>)>>], TRUE)
         [] replacement = "remove_negation" /\ has_value
               /\ (IF has_value THEN node.kids[1].kind = "UnaryOp" ELSE FALSE) ->
              Visited([node EXCEPT !.kids = <<node.kids[1].kids[1]>>], TRUE)
         [] replacement = "empty_str" ->
              Visited([node EXCEPT !.kids = <<Constant("''")>>], TRUE)
         [] OTHER -> Visited(node, FALSE)

visit_Return(node, m) ==
    IF _matches(node, m) /\ m.point.node_type = "Return"
    THEN LET r == _mutate_return(node, m)
         IN ThenGeneric(r.node, r.applied, m)
    ELSE ThenGeneric(node, FALSE, m)

\* NodeVisitor.visit: the method named after the node's class, or generic_visit
Visit(node, m) ==
    CASE node.kind = "BinOp" -> visit_BinOp(node, m)
      [] node.kind = "Compare" -> visit_Compare(node, m)
      [] node.kind = "BoolOp" -> visit_BoolOp(node, m)
      [] node.kind = "UnaryOp" -> visit_UnaryOp(node, m)
      [] node.kind = "Return" -> visit_Return(node, m)
      [] OTHER -> ThenGeneric(node, FALSE, m)

\* the children of a node visited in order; applied is shared by all visits
VisitAll(kids, m) ==
    IF kids = <<>> THEN [kids |-> <<>>, applied |-> FALSE]
    ELSE LET h == Visit(Head(kids), m)
             t == VisitAll(Tail(kids), m)
         IN [kids |-> <<h.node>> \o t.kids, applied |-> h.applied \/ t.applied]

RECURSIVE _fix(_, _, _)
\* ast.fix_missing_locations: a node without a position takes its parent's;
\* a Module has no position attributes
_fix(node, lineno, col_offset) ==
    LET here == IF node.kind = "Module" \/ node.loc THEN node
                ELSE [node EXCEPT !.loc = TRUE, !.lineno = lineno,
                                  !.col_offset = col_offset]
        ln == IF node.kind = "Module" THEN lineno ELSE here.lineno
        co == IF node.kind = "Module" THEN col_offset ELSE here.col_offset
    IN [here EXCEPT !.kids = [i \in 1..Len(node.kids) |-> _fix(node.kids[i], ln, co)]]

fix_missing_locations(node) == _fix(node, 1, 0)

\* apply_mutation: (tree, applier.applied)
apply_mutation(src, m) ==
    LET r == Visit(Parse(src), m)
    IN [tree |-> fix_missing_locations(r.node), applied |-> r.applied]

(***************************************************************************)
(* Scanning a source and applying a mutant to it.                         *)
(***************************************************************************)
\* the node kinds a point can name
PointKinds == {"BinOp", "Compare", "BoolOp", "UnaryOp", "Return", "AugAssign", "IfExp", "Break", "Continue", "ExceptHandler"}

\* replacement tags: some of every group the registry uses, and one it does not
TagSample == {"Sub", "BitOr", "_remove", "False", "None", "negate", "remove_negation", "empty_str", "expr", "swap_branches", "continue", "TotallyFake"}

\* a mutant the engine made, moved off its node, renamed, or given another tag
Perturbed(m) ==
    {[m EXCEPT !.point.lineno = @ + 1], [m EXCEPT !.point.col_offset = @ + 1]}
    \cup {[m EXCEPT !.point.node_type = k] : k \in PointKinds}
    \cup {[m EXCEPT !.replacement_op = t] : t \in TagSample}

\* mutants aimed at the first statement of the function body
Probes(t) ==
    LET stmt == t.kids[1].kids[1]
    IN {Mutant(PointAt(stmt, k, "probe"), tag, 0) :
           k \in {"Return", stmt.kind}, tag \in TagSample}

\* the mutants the engine makes from the scanned points, and mutants that do
\* not fit the source
Candidates(t, pts) ==
    LET real == SeqSet(ExpandMutants(pts, FALSE))
    IN real \cup UNION {Perturbed(m) : m \in real} \cup Probes(t)

InitApplier ==
    /\ apc = "parsed"
    /\ source \in Sources
    /\ tree = Parse(source)
    /\ mutant = <<>>
    /\ out_tree = <<>>
    /\ applied = FALSE
    /\ points = <<>>
    /\ RunnerOff
    /\ RegistryOff
    /\ EngineOff
    /\ TracerOff
    /\ PluginOff
    /\ EnricherOff
    /\ CleanupOff

\* find_mutation_points(source, ...)
Scan ==
    /\ apc = "parsed"
    /\ points' = find_mutation_points(source)
    /\ apc' = "scanned"
    /\ UNCHANGED <<source, tree, mutant, out_tree, applied, runnerVars, registryVars, engineVars, tracerVars, pluginVars, enricherVars, cleanupVars>>

\* apply_mutation(source, mutant)
ApplyMutation ==
    /\ apc = "scanned"
    /\ \E m \in Candidates(tree, points) :
          LET r == apply_mutation(source, m)
          IN /\ mutant' = m
             /\ out_tree' = r.tree
             /\ applied' = r.applied
    /\ apc' = "applied"
    /\ UNCHANGED <<source, tree, points, runnerVars, registryVars, engineVars, tracerVars, pluginVars, enricherVars, cleanupVars>>

NextApplier == Scan \/ ApplyMutation

SpecApplier == InitApplier /\ [][NextApplier]_vars

(***************************************************************************)
(* Claims about the applier and the scanner.                              *)
(***************************************************************************)
RECURSIVE NodesOf(_)
\* every node of a tree
NodesOf(node) == {node} \cup UNION {NodesOf(node.kids[i]) : i \in 1..Len(node.kids)}

\* the node is the construct the point names: same line, column and kind
IsTarget(node, point) ==
    /\ node.loc
    /\ node.lineno = point.lineno
    /\ node.col_offset = point.col_offset
    /\ node.kind = point.node_type

HasTarget(t, point) == \E node \in NodesOf(t) : IsTarget(node, point)

RECURSIVE SameShape(_, _)
\* the two trees have the same kinds of nodes in the same places
SameShape(a, b) ==
    /\ a.kind = b.kind
    /\ Len(a.kids) = Len(b.kids)
    /\ \A i \in 1..Len(a.kids) : SameShape(a.kids[i], b.kids[i])

RECURSIVE NodesChanged(_, _)
RECURSIVE NodesChangedIn(_, _)
\* for trees of the same shape: how many nodes differ in their own attributes
NodesChanged(a, b) ==
    (IF [a EXCEPT !.kids = <<>>] # [b EXCEPT !.kids = <<>>] THEN 1 ELSE 0)
    + NodesChangedIn(a.kids, b.kids)

NodesChangedIn(as, bs) ==
    IF as = <<>> THEN 0
    ELSE NodesChanged(Head(as), Head(bs)) + NodesChangedIn(Tail(as), Tail(bs))

\* C5: applying one mutant transforms at most one node: where the mutated
\* tree has the shape of the parsed one, at most one node of it differs from
\* the parsed tree, also when several nodes of the mutant's kind start at
\* the mutant's line and column.
C5_AtMostOneNodeChanged ==
    (apc = "applied" /\ SameShape(tree, out_tree))
        => NodesChanged(tree, out_tree) <= 1

\* the replacement tags the applier has a transformation for, by node kind
RecognisedTags(kind) ==
    CASE kind \in {"BinOp", "Compare", "BoolOp"} -> _OP_CLASSES
      [] kind = "UnaryOp" -> _OP_CLASSES \cup {"_remove"}
      [] kind = "Return" ->
           {"False", "True", "None", "negate", "negate_expr", "remove_negation", "empty_str"}
      [] OTHER -> {}

IsEngineMutant == mutant \in SeqSet(ExpandMutants(points, FALSE))

\* C7: every mutant made from a point the scanner emitted for the source and
\* a replacement mutations_for returned for that point is applied to that
\* source with applied = TRUE.
C7_EngineMutantsAreApplied ==
    (apc = "applied" /\ IsEngineMutant) => applied = TRUE

Triple(point) == <<point.lineno, point.col_offset, point.node_type>>

\* C8: no two of the points scanned from one source have the same line,
\* column and node kind.
C8_TriplesAreUnique ==
    apc \in {"scanned", "applied"}
        => \A i, j \in 1..Len(points) :
              i # j => Triple(points[i]) # Triple(points[j])
(***************************************************************************)
(* THE TYPE ENRICHER (type_extractor.py).  A target file is a function     *)
(*   def f(x[: <param>]) [-> <returns>]:                                   *)
(* followed by the statements of a source.  An annotation is a record     *)
(*   [a |-> "Name", id]  [a |-> "Constant", value]                        *)
(*   [a |-> "Subscript", value, slice]  [a |-> "BitOr", left, right]      *)
(* or NoAnnotation.                                                       *)
(***************************************************************************)
NoAnnotation == [a |-> "none"]
AnnName(id) == [a |-> "Name", id |-> id]
AnnConstant(value) == [a |-> "Constant", value |-> value]
AnnSubscript(value, slice) == [a |-> "Subscript", value |-> value, slice |-> slice]
AnnBitOr(left, right) == [a |-> "BitOr", left |-> left, right |-> right]

RECURSIVE _annotation_to_str(_)
_annotation_to_str(node) ==
    CASE node.a = "Constant" -> node.value
      [] node.a = "Name" -> node.id
      [] node.a = "Subscript" ->
           LET base == _annotation_to_str(node.value)
               inner == _annotation_to_str(node.slice)
           IN IF base = "Optional" /\ inner # NoneValue
              THEN "Optional[" \o inner \o "]"
              ELSE base
      [] node.a = "BitOr" ->
           LET left == _annotation_to_str(node.left)
               right == _annotation_to_str(node.right)
           IN IF right = "None" /\ left # NoneValue
              THEN "Optional[" \o left \o "]"
              ELSE IF left = "None" /\ right # NoneValue
                   THEN "Optional[" \o right \o "]"
                   ELSE NoneValue
      [] OTHER -> NoneValue

\* a target file: its path, its module name, whether ast.parse accepts it,
\* the annotations of the signature and the statements of the body
TargetFile(path, module_name, parses, param, returns, stmts) ==
    [path |-> path, module_name |-> module_name, parses |-> parses,
     param |-> param, returns |-> returns, stmts |-> stmts]

RECURSIVE LinesOf(_)
\* how many lines a sequence of statements takes
LinesOf(stmts) ==
    IF stmts = <<>> THEN 0 ELSE StmtLines(Head(stmts)) + LinesOf(Tail(stmts))

\* _TypeCollector._process_func on "def <name>(x[: param]) [-> returns]:"
\* that takes the lines start_line..end_line
_FuncInfo(name, start_line, end_line, param, returns) ==
    [name |-> name,
     start_line |-> start_line,
     end_line |-> end_line,
     param_types |-> IF param # NoAnnotation
                        /\ _annotation_to_str(param) # NoneValue
                     THEN [n \in {"x"} |-> _annotation_to_str(param)]
                     ELSE <<>>,
     return_type |-> IF returns # NoAnnotation
                     THEN _annotation_to_str(returns)
                     ELSE NoneValue]

\* _TypeCollector._process_func on the function of the file
_process_func(file) ==
    _FuncInfo("f", 1, 1 + LinesOf(file.stmts), file.param, file.returns)

\* collector.functions after collector.visit(tree)
CollectFunctions(file) == <<_process_func(file)>>

NoFunc == [name |-> NoneValue]

RECURSIVE _find_enclosing_func(_, _)
_find_enclosing_func(functions, lineno) ==
    IF functions = <<>> THEN NoFunc
    ELSE IF Head(functions).start_line <= lineno /\ lineno <= Head(functions).end_line
         THEN Head(functions)
         ELSE _find_enclosing_func(Tail(functions), lineno)

_infer_expr_type(node, func) ==
    IF node.kind = "Name" /\ node.val \in DOMAIN func.param_types
    THEN func.param_types[node.val]
    ELSE IF node.kind = "Constant"
         THEN CASE node.val \in {"5", "0"} -> "int"
                [] node.val \in {"1.5", "0.0"} -> "float"
                [] node.val \in {"'s'", "''"} -> "str"
                [] node.val \in {"True", "False"} -> "bool"
                [] OTHER -> NoneValue
         ELSE NoneValue

_infer_binop_type(node, func) ==
    LET left_type == _infer_expr_type(node.kids[1], func)
    IN IF left_type # NoneValue THEN left_type
       ELSE _infer_expr_type(node.kids[2], func)

RECURSIVE FirstTyped(_, _)
\* the loop over node.comparators
FirstTyped(nodes, func) ==
    IF nodes = <<>> THEN NoneValue
    ELSE IF _infer_expr_type(Head(nodes), func) # NoneValue
         THEN _infer_expr_type(Head(nodes), func)
         ELSE FirstTyped(Tail(nodes), func)

_infer_compare_type(node, func) ==
    LET left_type == _infer_expr_type(node.kids[1], func)
    IN IF left_type # NoneValue THEN left_type
       ELSE FirstTyped(Tail(node.kids), func)

RECURSIVE Walk(_)
\* ast.walk: breadth first, from a queue of nodes
Walk(queue) ==
    IF queue = <<>> THEN <<>>
    ELSE <<Head(queue)>> \o Walk(Tail(queue) \o Head(queue).kids)

NoNode == NewNode("none", <<>>, "", <<>>)

RECURSIVE FirstAt(_, _, _, _)
FirstAt(nodes, lineno, col_offset, node_type) ==
    IF nodes = <<>> THEN NoNode
    ELSE IF /\ Head(nodes).loc
            /\ Head(nodes).lineno = lineno
            /\ Head(nodes).col_offset = col_offset
            /\ Head(nodes).kind = node_type
         THEN Head(nodes)
         ELSE FirstAt(Tail(nodes), lineno, col_offset, node_type)

_find_node_at(t, lineno, col_offset, node_type) ==
    FirstAt(Walk(<<t>>), lineno, col_offset, node_type)

\* the body of the loop of enrich_mutation_points for one point
EnrichPoint(t, functions, point) ==
    LET func == _find_enclosing_func(functions, point.lineno)
        node == _find_node_at(t, point.lineno, point.col_offset, point.node_type)
        inferred_type ==
            CASE point.node_type = "Return" -> func.return_type
              [] point.node_type = "BinOp" ->
                   IF node.kind = "BinOp" THEN _infer_binop_type(node, func)
                   ELSE NoneValue
              [] point.node_type = "Compare" ->
                   IF node.kind = "Compare" THEN _infer_compare_type(node, func)
                   ELSE NoneValue
              [] point.node_type = "BoolOp" -> "bool"
              [] point.node_type = "UnaryOp" ->
                   IF node.kind = "UnaryOp" THEN _infer_expr_type(node.kids[1], func)
                   ELSE NoneValue
              [] OTHER -> NoneValue
    IN IF func = NoFunc THEN point
       ELSE IF inferred_type # NoneValue
            THEN [point EXCEPT !.inferred_type = inferred_type]
            ELSE point

enrich_mutation_points(file, pts) ==
    IF pts = <<>> THEN pts
    ELSE [i \in 1..Len(pts) |->
             EnrichPoint(Parse(file.stmts), CollectFunctions(file), pts[i])]
(***************************************************************************)
(* THE ENGINE (engine.py, resources.py, models.py): one Engine.run call.  *)
(***************************************************************************)
MaxFiles == 2        \* how many target files a run is given

\* def f(x: int) -> int: return x + x
FileA ==
    TargetFile("/proj/a.py", "a", TRUE, AnnName("int"), AnnName("int"),
               <<Stmt("return_expr", <<"AddL">>, <<>>)>>)
\* def f(x: str) -> bool: return x + x
FileB ==
    TargetFile("/proj/b.py", "b", TRUE, AnnName("str"), AnnName("bool"),
               <<Stmt("return_expr", <<"AddL">>, <<>>)>>)
\* def f(x): return x / return x + x
FileC ==
    TargetFile("/proj/c.py", "c", TRUE, NoAnnotation, NoAnnotation,
               <<Stmt("return_expr", <<>>, <<>>), Trailer>>)
\* a file ast.parse raises SyntaxError for
FileBad ==
    TargetFile("/proj/bad.py", "bad", FALSE, NoAnnotation, NoAnnotation, <<>>)

EngineFiles == {FileA, FileB, FileC, FileBad}

\* the lists of at most n different files
RECURSIVE FileLists(_)
FileLists(n) ==
    IF n = 0 THEN {<<>>}
    ELSE LET shorter == FileLists(n - 1)
         IN shorter \cup {Append(q, f) : q \in shorter, f \in EngineFiles}

TargetFileLists ==
    {q \in FileLists(MaxFiles) : \A i, j \in 1..Len(q) : i # j => q[i] # q[j]}

\* An argument or local that can be None is a sequence: empty for None, and
\* otherwise of the one value it holds.
Nothing == <<>>
Some(x) == <<x>>

\* ResourceLimits(max_cores, max_memory_percent), each field None or a number
ResourceLimits(max_cores, max_memory_percent) ==
    [max_cores |-> max_cores, max_memory_percent |-> max_memory_percent]

LimitChoices ==
    {Nothing, Some(ResourceLimits(Nothing, Nothing)),
     Some(ResourceLimits(Some(2), Some(80)))}

\* the percentages check_memory_usage can return; 0 when /proc/meminfo
\* cannot be read
UsageReadings == {0, 50, 80, 95}

\* is_memory_ok that accepts usage equal to the limit
is_memory_ok_AtAllowed(lim, reading) ==
    IF lim.max_memory_percent = Nothing THEN TRUE
    ELSE reading <= lim.max_memory_percent[1]

\* is_memory_ok, given what check_memory_usage returns when it is called
is_memory_ok(lim, reading) ==
    IF lim.max_memory_percent = Nothing THEN TRUE
    ELSE reading < lim.max_memory_percent[1]

\* results of changed_lines: path -> set of line numbers
DiffChoices ==
    { ("/proj/a.py" :> {2}) @@ ("/proj/c.py" :> {2}),
      ("/proj/c.py" :> {3}) @@ ("/proj/other.py" :> {2}),
      <<>> }

\* CoverageMap.line_to_tests: (path, line) -> set of test ids
CoverageChoices ==
    { (<<"/proj/a.py", 2>> :> {"t2", "t1"}) @@ (<<"/proj/c.py", 3>> :> {"t1"}),
      (<<"/proj/b.py", 2>> :> {"t2"}) @@ (<<"/proj/c.py", 2>> :> {}) }

\* explicit test ids: none given, an empty list, or a list that is not in
\* sorted order
TestIdChoices == {Nothing, Some(<<>>), Some(<<"t2", "t1">>)}

\* the tests kill every mutant, no mutant, or the mutants of even id
KillerChoices == {"all", "none", "even"}

Kills(k, m) ==
    CASE k = "all" -> TRUE
      [] k = "even" -> m.mutant_id % 2 = 0
      [] OTHER -> FALSE

\* CoverageMap.tests_for
tests_for(cmap, file_path, lineno) ==
    IF <<file_path, lineno>> \in DOMAIN cmap THEN cmap[<<file_path, lineno>>] ELSE {}

\* the test ids in sorted order
SortedNodeIds == <<"t1", "t2">>
\* sorted(S) for a set of test ids
Sorted(S) == FilterSeq(SortedNodeIds, NodeIds \ S)

\* find_mutation_points(source, abs_path, module_name)
ScanFile(file) ==
    LET pts == find_mutation_points(file.stmts)
    IN [i \in 1..Len(pts) |->
           [pts[i] EXCEPT !.file_path = file.path, !.module_name = file.module_name]]

\* the two loops with mutant_id starting at 0 again for every file
MutantsOf_RestartIds(pts, types, first_id) ==
    IF pts = <<>> THEN <<>>
    ELSE ExpandFrom(pts, mutations_for(pts[1], types), types, 0)

\* the two loops that append to all_mutants, from the given mutant_id
MutantsOf(pts, types, first_id) ==
    IF pts = <<>> THEN <<>>
    ELSE ExpandFrom(pts, mutations_for(pts[1], types), types, first_id)

\* total_mutants with the pruned count taken off
TotalMutants_Minus(mutants, num_pruned) == Len(mutants) - num_pruned

\* total_mutants = len(all_mutants) + total_pruned
TotalMutants(mutants, num_pruned) == Len(mutants) + num_pruned

\* the filter on diff_lines without the test on the line number
DiffFilter_FileOnly(mutants, lines) ==
    FilterSeq(mutants,
              {m \in SeqSet(mutants) : m.point.file_path \notin DOMAIN lines})

\* all_mutants after the filter on diff_lines
DiffFilter(mutants, lines) ==
    FilterSeq(mutants,
              {m \in SeqSet(mutants) :
                  ~(/\ m.point.file_path \in DOMAIN lines
                    /\ m.point.lineno \in lines[m.point.file_path])})

\* test_ids with the explicit list taken before the coverage map
TestIdsFor_ExplicitFirst(m, cmap, ids) ==
    LET covered == IF cmap # Nothing
                   THEN tests_for(cmap[1], m.point.file_path, m.point.lineno)
                   ELSE {}
    IN IF ids # Nothing THEN ids
       ELSE IF covered # {} THEN Some(Sorted(covered))
       ELSE Nothing

\* the test_ids handed to run_tests_for_mutant
TestIdsFor(m, cmap, ids) ==
    LET covered == IF cmap # Nothing
                   THEN tests_for(cmap[1], m.point.file_path, m.point.lineno)
                   ELSE {}
    IN IF cmap # Nothing /\ covered # {} THEN Some(Sorted(covered))
       ELSE IF ids # Nothing THEN ids
       ELSE Nothing

\* the MutantResult of a run_tests_for_mutant call
MutantResult(m, is_killed) == [mutant |-> m, killed |-> is_killed]

RunResult(files, total, tested, num_pruned, res) ==
    [target_files |-> files, total_mutants |-> total, mutants_tested |-> tested,
     mutants_pruned |-> num_pruned, results |-> res,
     coverage_map |-> Nothing, target_sources |-> <<>>]

RECURSIVE CountKilled(_)
\* RunResult.killed
CountKilled(res) ==
    IF res = <<>> THEN 0
    ELSE (IF Head(res).killed THEN 1 ELSE 0) + CountKilled(Tail(res))

\* mutation_score with total_mutants as the divisor
mutation_score_OfTotal(rr) ==
    IF rr.mutants_tested = 0 THEN [num |-> 0, den |-> 1]
    ELSE [num |-> CountKilled(rr.results) * 100, den |-> rr.total_mutants]

\* RunResult.mutation_score, as the fraction num / den
mutation_score(rr) ==
    IF rr.mutants_tested = 0 THEN [num |-> 0, den |-> 1]
    ELSE [num |-> CountKilled(rr.results) * 100, den |-> rr.mutants_tested]

\* a module loaded from the temp directory, a module without __file__
TmpModule == <<"tmp_target">>
BuiltinsModule == <<"builtins">>
TmpDir == <<"tmp">>

\* the process an Engine.run call starts in: with and without a stale finder
EngineMetaPaths ==
    { <<BuiltinImporter, PathFinder>>,
      <<StaleFinder, BuiltinImporter, PathFinder>> }

EngineModules ==
    (JsonModule :> Module(0, DiskFile(JsonModule)))
    @@ (TmpModule :> Module(0, TmpDir \o <<"tmp_target.py">>))
    @@ (BuiltinsModule :> Module(0, <<>>))

\* _clean_process_state: sys.meta_path afterwards
CleanMetaPath(mp) ==
    FilterSeq(mp, {f \in SeqSet(mp) : IsMutatingFinder(f)})

\* _clean_process_state: sys.modules afterwards
CleanModules(mods) ==
    LET stale == {n \in DOMAIN mods :
                     /\ mods[n].file # <<>>
                     /\ Len(mods[n].file) > Len(TmpDir)
                     /\ IsPrefix(TmpDir, mods[n].file)}
    IN Pop(mods, stale)

\* the runner's variables that an Engine.run call does not use
RunnerIdle ==
    /\ pc = "off"
    /\ start_meta_path = <<>> /\ start_modules = <<>>
    /\ saved_meta_path = <<>> /\ saved_modules = <<>>
    /\ collector = NewCollector /\ reports = <<>> /\ steps = 0
    /\ exit = "none" /\ result = NoResult

runnerIdleVars == <<pc, start_meta_path, start_modules, saved_meta_path,
                    saved_modules, collector, reports, steps, exit, result>>

InitEngine ==
    /\ epc = "start"
    /\ target_files \in TargetFileLists
    /\ eng_types \in BOOLEAN
    /\ use_coverage \in BOOLEAN
    /\ limits \in LimitChoices
    /\ diff_base \in {NoneValue, "main"}
    /\ diff_lines \in IF diff_base = NoneValue THEN {<<>>} ELSE DiffChoices
    /\ test_node_ids \in TestIdChoices
    /\ cov_found \in IF use_coverage THEN CoverageChoices ELSE {<<>>}
    /\ killer \in KillerChoices
    /\ meta_path \in EngineMetaPaths
    /\ modules = EngineModules
    /\ file_idx = 0 /\ all_mutants = <<>> /\ total_pruned = 0
    /\ next_mutant_id = 0 /\ total_mutants = 0
    /\ target_sources = <<>> /\ module_to_file = <<>>
    /\ coverage_map = Nothing /\ coverage_runs = 0 /\ mut_idx = 0
    /\ usage = 0 /\ stopped = FALSE /\ calls = <<>> /\ run_results = <<>>
    /\ run_result = Nothing
    /\ RunnerIdle
    /\ ApplierOff
    /\ RegistryOff
    /\ TracerOff
    /\ PluginOff
    /\ EnricherOff
    /\ CleanupOff

engineInputs == <<target_files, eng_types, use_coverage, limits, diff_base,
                  diff_lines, test_node_ids, cov_found, killer>>

\* engine.py:98-110
EngineBegin ==
    /\ epc = "start"
    /\ meta_path' = CleanMetaPath(meta_path)
    /\ modules' = CleanModules(modules)
    /\ epc' = "files"
    /\ file_idx' = 1
    /\ UNCHANGED <<engineInputs, all_mutants, total_pruned, next_mutant_id,
                   total_mutants, target_sources, module_to_file, coverage_map,
                   coverage_runs, mut_idx, usage, stopped, calls, run_results,
                   run_result>>
    /\ UNCHANGED <<runnerIdleVars, applierVars, registryVars, tracerVars, pluginVars, enricherVars, cleanupVars>>

\* engine.py:112-140, one pass of the loop over target_files
LoadFile ==
    /\ epc = "files"
    /\ file_idx <= Len(target_files)
    /\ target_files[file_idx].parses
    /\ LET file == target_files[file_idx]
           pts == enrich_mutation_points(file, ScanFile(file))
           made == MutantsOf(pts, eng_types, next_mutant_id)
       IN /\ target_sources' = Put(target_sources, file.module_name, file.stmts)
          /\ module_to_file' = Put(module_to_file, file.module_name, file.path)
          /\ total_pruned' = total_pruned + count_pruned(pts, eng_types)
          /\ all_mutants' = all_mutants \o made
          /\ next_mutant_id' = next_mutant_id + Len(made)
    /\ file_idx' = file_idx + 1
    /\ UNCHANGED <<epc, engineInputs, total_mutants, coverage_map, coverage_runs,
                   mut_idx, usage, stopped, calls, run_results, run_result>>
    /\ UNCHANGED <<runnerVars, applierVars, registryVars, tracerVars, pluginVars, enricherVars, cleanupVars>>

\* a file that does not parse is passed over and the loop goes on
LoadFails_Skips ==
    /\ epc = "files"
    /\ file_idx <= Len(target_files)
    /\ ~target_files[file_idx].parses
    /\ LET file == target_files[file_idx]
       IN /\ target_sources' = Put(target_sources, file.module_name, file.stmts)
          /\ module_to_file' = Put(module_to_file, file.module_name, file.path)
    /\ file_idx' = file_idx + 1
    /\ UNCHANGED <<epc, engineInputs, all_mutants, total_pruned,
                   next_mutant_id, total_mutants, coverage_map, coverage_runs,
                   mut_idx, usage, stopped, calls, run_results, run_result>>
    /\ UNCHANGED <<runnerVars, applierVars, registryVars, tracerVars, pluginVars, enricherVars, cleanupVars>>

\* engine.py:112-122: ast.parse raises, and Engine.run with it
LoadFails ==
    /\ epc = "files"
    /\ file_idx <= Len(target_files)
    /\ ~target_files[file_idx].parses
    /\ LET file == target_files[file_idx]
       IN /\ target_sources' = Put(target_sources, file.module_name, file.stmts)
          /\ module_to_file' = Put(module_to_file, file.module_name, file.path)
    /\ epc' = "raised"
    /\ UNCHANGED <<engineInputs, file_idx, all_mutants, total_pruned,
                   next_mutant_id, total_mutants, coverage_map, coverage_runs,
                   mut_idx, usage, stopped, calls, run_results, run_result>>
    /\ UNCHANGED <<runnerVars, applierVars, registryVars, tracerVars, pluginVars, enricherVars, cleanupVars>>

\* engine.py:142-152
FilterDiff ==
    /\ epc = "files"
    /\ file_idx > Len(target_files)
    /\ total_mutants' = TotalMutants(all_mutants, total_pruned)
    /\ all_mutants' = IF diff_base # NoneValue
                      THEN DiffFilter(all_mutants, diff_lines)
                      ELSE all_mutants
    /\ epc' = "coverage"
    /\ UNCHANGED <<engineInputs, file_idx, total_pruned, next_mutant_id,
                   target_sources, module_to_file, coverage_map, coverage_runs,
                   mut_idx, usage, stopped, calls, run_results, run_result>>
    /\ UNCHANGED <<runnerVars, applierVars, registryVars, tracerVars, pluginVars, enricherVars, cleanupVars>>

\* engine.py:154-162
CollectCoverage ==
    /\ epc = "coverage"
    /\ IF use_coverage
       THEN coverage_map' = Some(cov_found) /\ coverage_runs' = coverage_runs + 1
       ELSE UNCHANGED <<coverage_map, coverage_runs>>
    /\ epc' = "loop"
    /\ mut_idx' = 1
    /\ UNCHANGED <<engineInputs, file_idx, all_mutants, total_pruned,
                   next_mutant_id, total_mutants, target_sources, module_to_file,
                   usage, stopped, calls, run_results, run_result>>
    /\ UNCHANGED <<runnerVars, applierVars, registryVars, tracerVars, pluginVars, enricherVars, cleanupVars>>

\* MutatingLoader.exec_module: the tree that is compiled and executed for a
\* module of the given source while the finder holds the mutant
exec_module(src, m) == apply_mutation(src, m).tree

\* engine.py:163-166: the memory check fails and the loop is left
MemoryStop ==
    /\ epc = "loop"
    /\ mut_idx <= Len(all_mutants)
    /\ limits # Nothing
    /\ \E reading \in UsageReadings :
          /\ ~is_memory_ok(limits[1], reading)
          /\ usage' = reading
    /\ stopped' = TRUE
    /\ epc' = "return"
    /\ UNCHANGED <<engineInputs, file_idx, all_mutants, total_pruned,
                   next_mutant_id, total_mutants, target_sources, module_to_file,
                   coverage_map, coverage_runs, mut_idx, calls, run_results,
                   run_result>>
    /\ UNCHANGED <<runnerVars, applierVars, registryVars, tracerVars, pluginVars, enricherVars, cleanupVars>>

\* engine.py:163-188, one pass of the loop over all_mutants
RunMutant ==
    /\ epc = "loop"
    /\ mut_idx <= Len(all_mutants)
    /\ \/ limits = Nothing /\ usage' = usage
       \/ /\ limits # Nothing
          /\ IF limits[1].max_memory_percent = Nothing
             THEN usage' = usage
             ELSE \E reading \in UsageReadings :
                     is_memory_ok(limits[1], reading) /\ usage' = reading
    /\ LET m == all_mutants[mut_idx]
           test_ids == TestIdsFor(m, coverage_map, test_node_ids)
           \* the module the finder's loader builds for each target module
           \* when the tests import it
           loaded == [name \in DOMAIN target_sources |-> exec_module(target_sources[name], m)]
       IN /\ calls' = Append(calls, [mutant |-> m, test_ids |-> test_ids,
                                     loaded |-> loaded])
          /\ run_results' = Append(run_results, MutantResult(m, Kills(killer, m)))
    /\ mut_idx' = mut_idx + 1
    /\ UNCHANGED <<epc, engineInputs, file_idx, all_mutants, total_pruned,
                   next_mutant_id, total_mutants, target_sources, module_to_file,
                   coverage_map, coverage_runs, stopped, run_result>>
    /\ UNCHANGED <<runnerVars, applierVars, registryVars, tracerVars, pluginVars, enricherVars, cleanupVars>>

\* engine.py:190-199
EngineReturn ==
    /\ \/ epc = "loop" /\ mut_idx > Len(all_mutants)
       \/ epc = "return"
    /\ run_result' = Some(RunResult([i \in 1..Len(target_files) |-> target_files[i].path],
                               total_mutants, Len(run_results), total_pruned,
                               run_results))
    /\ epc' = "done"
    /\ UNCHANGED <<engineInputs, file_idx, all_mutants, total_pruned,
                   next_mutant_id, total_mutants, target_sources, module_to_file,
                   coverage_map, coverage_runs, mut_idx, usage, stopped, calls,
                   run_results>>
    /\ UNCHANGED <<runnerVars, applierVars, registryVars, tracerVars, pluginVars, enricherVars, cleanupVars>>

NextEngine ==
    \/ EngineBegin
    \/ LoadFile
    \/ LoadFails
    \/ FilterDiff
    \/ CollectCoverage
    \/ MemoryStop
    \/ RunMutant
    \/ EngineReturn

SpecEngine == InitEngine /\ [][NextEngine]_vars
(***************************************************************************)
(* Claims about Engine.run.                                               *)
(***************************************************************************)
RECURSIVE ForReplacements(_, _, _)
\* one mutant for each replacement of a point, numbered from first_id
ForReplacements(point, ops, first_id) ==
    IF ops = <<>> THEN <<>>
    ELSE <<Mutant(point, Head(ops), first_id)>>
         \o ForReplacements(point, Tail(ops), first_id + 1)

RECURSIVE ForPoints(_, _, _)
\* the mutants of the points of one file, in point order
ForPoints(pts, types, first_id) ==
    IF pts = <<>> THEN <<>>
    ELSE LET here == ForReplacements(Head(pts), mutations_for(Head(pts), types), first_id)
         IN here \o ForPoints(Tail(pts), types, first_id + Len(here))

RECURSIVE ForFiles(_, _, _)
\* the mutants of the files, in file order
ForFiles(files, types, first_id) ==
    IF files = <<>> THEN <<>>
    ELSE LET here == ForPoints(enrich_mutation_points(Head(files), ScanFile(Head(files))),
                               types, first_id)
         IN here \o ForFiles(Tail(files), types, first_id + Len(here))

\* every mutant the run generates, before any filter
Generated == ForFiles(target_files, eng_types, 0)

RECURSIVE PrunedOfFiles(_, _)
\* the pruned counts of the files, added up
PrunedOfFiles(files, types) ==
    IF files = <<>> THEN 0
    ELSE count_pruned(enrich_mutation_points(Head(files), ScanFile(Head(files))), types)
         + PrunedOfFiles(Tail(files), types)

\* C11: the RunResult has total_mutants = number of generated mutants plus
\* the summed pruned count (also when that count is negative) and
\* mutants_pruned = that count; with no diff base and no early stop,
\* total_mutants = mutants_tested + mutants_pruned.
C11_TotalIsGeneratedPlusPruned ==
    epc = "done" =>
        LET rr == run_result[1]
            num_pruned == PrunedOfFiles(target_files, eng_types)
        IN /\ rr.total_mutants = Len(Generated) + num_pruned
           /\ rr.mutants_pruned = num_pruned
           /\ (diff_base = NoneValue /\ ~stopped)
                 => rr.total_mutants = rr.mutants_tested + rr.mutants_pruned

\* a completed run without diff base whose summed pruned count is negative
C11_Witness ==
    /\ epc = "done"
    /\ diff_base = NoneValue
    /\ ~stopped
    /\ run_result[1].mutants_pruned < 0
    /\ run_result[1].mutants_tested > 0
    /\ run_result[1].total_mutants = run_result[1].mutants_tested - 1

\* the mutants handed to run_tests_for_mutant so far, in call order
Executed == [i \in 1..Len(calls) |-> calls[i].mutant]

RECURSIVE IsSubseq(_, _)
\* a is b with some elements left out
IsSubseq(a, b) ==
    IF a = <<>> THEN TRUE
    ELSE IF b = <<>> THEN FALSE
    ELSE IF Head(a) = Head(b) THEN IsSubseq(Tail(a), Tail(b))
    ELSE IsSubseq(a, Tail(b))

\* C12: with a diff base, every executed mutant has its (file path, line)
\* in the changed-lines map, the executed mutants are a subsequence of the
\* mutants a run without diff scope executes, and mutants_tested is at most
\* the unscoped count.
C12_DiffScopeRestrictsExecuted ==
    diff_base # NoneValue =>
        /\ \A i \in 1..Len(Executed) :
              /\ Executed[i].point.file_path \in DOMAIN diff_lines
              /\ Executed[i].point.lineno \in diff_lines[Executed[i].point.file_path]
        /\ IsSubseq(Executed, Generated)
        /\ epc = "done" => run_result[1].mutants_tested <= Len(Generated)

\* a completed diff-scoped run that ran some but not all generated mutants,
\* one of them in a file that also has a mutant on an unchanged line
C12_Witness ==
    /\ epc = "done"
    /\ diff_base # NoneValue
    /\ ~stopped
    /\ run_result[1].mutants_tested > 0
    /\ run_result[1].mutants_tested < Len(Generated)
    /\ \E i \in 1..Len(Executed), j \in 1..Len(Generated) :
          /\ Generated[j].point.file_path = Executed[i].point.file_path
          /\ Generated[j].point.lineno \notin diff_lines[Executed[i].point.file_path]

\* the memory limit of the run, Nothing when the run has none
MemoryLimit ==
    IF limits = Nothing THEN Nothing ELSE limits[1].max_memory_percent

\* C13: with resource limits the memory check precedes each mutant: a mutant
\* is run only after a check that reported usage under the limit, and at the
\* first check that reports usage at or over the limit the loop ends, so
\* that mutant and all later ones are not run and the results are a prefix
\* of the mutant list.  Without a memory limit the loop is never stopped.
C13_MemoryStopLeavesPrefix ==
    epc \in {"loop", "return", "done"} =>
        /\ Len(Executed) <= Len(all_mutants)
        /\ Executed = SubSeq(all_mutants, 1, Len(Executed))
        /\ Len(run_results) = Len(Executed)
        /\ \A i \in 1..Len(run_results) : run_results[i].mutant = all_mutants[i]
        /\ (MemoryLimit # Nothing /\ ~stopped /\ Len(Executed) > 0)
              => usage < MemoryLimit[1]
        /\ stopped =>
              /\ MemoryLimit # Nothing
              /\ usage >= MemoryLimit[1]
              /\ epc # "loop"
              /\ Len(Executed) < Len(all_mutants)
        /\ MemoryLimit = Nothing => ~stopped
        /\ (epc = "done" /\ ~stopped) => Len(run_results) = Len(all_mutants)

\* a run stopped by a reading equal to the limit after it ran one mutant, with
\* at least two mutants left
C13_Witness ==
    /\ epc = "done"
    /\ stopped
    /\ usage = MemoryLimit[1]
    /\ Len(run_result[1].results) = 1
    /\ Len(all_mutants) >= 3

\* C14: the returned RunResult has mutants_tested < total_mutants -
\* mutants_pruned exactly when the loop over the mutants was stopped by the
\* memory check.
C14_ShortfallIffMemoryStop ==
    epc = "done" =>
        LET rr == run_result[1]
        IN (rr.mutants_tested < rr.total_mutants - rr.mutants_pruned) <=> stopped

\* the position of a test id in sorted order
Rank(t) == CHOOSE k \in 1..Len(SortedNodeIds) : SortedNodeIds[k] = t

\* s lists the elements of S once each, in sorted order
IsSortedListing(s, S) ==
    /\ SeqSet(s) = S
    /\ Len(s) = Cardinality(S)
    /\ \A i, j \in 1..Len(s) : i < j => Rank(s[i]) < Rank(s[j])

\* the tests the coverage pass found for the line of mutant m
CoveredFor(m) ==
    IF use_coverage /\ <<m.point.file_path, m.point.lineno>> \in DOMAIN cov_found
    THEN cov_found[<<m.point.file_path, m.point.lineno>>]
    ELSE {}

\* C15: the test ids of each runner call are the sorted coverage-mapped
\* tests of the mutant's (file, line) when coverage is enabled and that set
\* is not empty; otherwise the explicit test-id list when one was given;
\* otherwise none.
C15_TestSubsetChoice ==
    \A i \in 1..Len(calls) :
        LET m == calls[i].mutant
            ids == calls[i].test_ids
        IN IF use_coverage /\ CoveredFor(m) # {}
           THEN ids # Nothing /\ IsSortedListing(ids[1], CoveredFor(m))
           ELSE ids = test_node_ids

\* calls of one run with an explicit list given: one with two covering tests
\* (handed over sorted, not as the explicit list), one with none
C15_Witness ==
    /\ use_coverage
    /\ test_node_ids = Some(<<"t2", "t1">>)
    /\ \E i \in 1..Len(calls) :
          /\ CoveredFor(calls[i].mutant) = {"t1", "t2"}
          /\ calls[i].test_ids = Some(<<"t1", "t2">>)
    /\ \E i \in 1..Len(calls) :
          /\ CoveredFor(calls[i].mutant) = {}
          /\ calls[i].test_ids = test_node_ids

\* the mutants of the results so far, in results order
ResultMutants == [i \in 1..Len(run_results) |-> run_results[i].mutant]

\* C16: the results are in generation order (file order, then point order,
\* then replacement order), one per executed mutant; mutant ids are unique in
\* the run and strictly increasing along the results, also after the diff
\* filter or a memory stop.
C16_ResultsInGenerationOrder ==
    /\ ResultMutants = Executed
    /\ IsSubseq(ResultMutants, Generated)
    /\ \A i, j \in 1..Len(all_mutants) :
          i < j => all_mutants[i].mutant_id < all_mutants[j].mutant_id
    /\ \A i, j \in 1..Len(run_results) :
          i < j => run_results[i].mutant.mutant_id < run_results[j].mutant.mutant_id

\* a diff-scoped run stopped by the memory check whose results come from two
\* files, with a mutant in between that the diff filter removed
C16_Witness ==
    /\ epc = "done"
    /\ diff_base # NoneValue
    /\ stopped
    /\ \E i \in 1..Len(run_results) - 1 :
          /\ run_results[i].mutant.point.file_path # run_results[i + 1].mutant.point.file_path
          /\ run_results[i + 1].mutant.mutant_id > run_results[i].mutant.mutant_id + 1

\* C17: the mutation_score of a returned RunResult is between 0 and 100, is 0
\* when mutants_tested is 0, and is otherwise killed / mutants_tested * 100.
C17_ScoreIsAPercentage ==
    epc = "done" =>
        LET rr == run_result[1]
            score == mutation_score(rr)
            num_killed == Cardinality({i \in 1..Len(rr.results) : rr.results[i].killed})
        IN /\ score.den > 0
           /\ 0 <= score.num
           /\ score.num <= 100 * score.den
           /\ rr.mutants_tested = 0 => score.num = 0
           /\ rr.mutants_tested > 0
                 => score.num * rr.mutants_tested = num_killed * 100 * score.den

\* a returned RunResult with some mutants killed and some not, and fewer
\* total_mutants than mutants_tested
C17_Witness ==
    /\ epc = "done"
    /\ mutation_score(run_result[1]).num > 0
    /\ mutation_score(run_result[1]).num < 100 * mutation_score(run_result[1]).den
    /\ run_result[1].total_mutants < run_result[1].mutants_tested

(***************************************************************************)
(* Claims about the scanner's exception handlers and typed returns.        *)
(***************************************************************************)
\* the try statements of the scanned source
TryStmts == {i \in 1..Len(source) : source[i].form = "try"}

\* the points of the scan that are exception handlers, in scan order
HandlerPoints ==
    FilterSeq(points, {p \in SeqSet(points) : p.node_type # "ExceptHandler"})

\* the class the handler "except <f>: <b>" has, <<>> when it has none
HandlerClass(f, b) ==
    LET bare_reraise == b = "raise"
        no_filter == f = "none"
        is_exception == f = "Exception"
    IN CASE ~no_filter /\ ~is_exception /\ ~bare_reraise -> <<"typed">>
         [] is_exception /\ ~bare_reraise -> <<"typed_broadest">>
         [] ~no_filter /\ ~is_exception /\ bare_reraise -> <<"typed_raise_body">>
         [] no_filter /\ ~bare_reraise -> <<"bare">>
         [] OTHER -> <<>>

\* C18: the scan gives a handler the point "typed", "typed_broadest",
\* "typed_raise_body" or "bare" by its filter (other than Exception,
\* Exception, none) and its body (bare re-raise or not), at the handler's
\* position, and no point when the body is a bare re-raise and the filter is
\* Exception or absent; raise with an exception is not a bare re-raise.
C18_HandlerClassification ==
    apc \in {"scanned", "applied"} =>
        /\ TryStmts = {} => HandlerPoints = <<>>
        /\ \A i \in TryStmts :
              LET class == HandlerClass(source[i].arg[1], source[i].arg[2])
              IN /\ Len(HandlerPoints) = Len(class)
                 /\ \A k \in 1..Len(class) :
                       /\ HandlerPoints[k].original_op = class[k]
                       /\ \E node \in NodesOf(tree) :
                             /\ node.kind = "ExceptHandler"
                             /\ node.lineno = HandlerPoints[k].lineno
                             /\ node.col_offset = HandlerPoints[k].col_offset

\* a scanned "except Exception: raise x", classified typed_broadest
C18_Witness ==
    /\ apc = "scanned"
    /\ source[1] = Stmt("try", <<>>, <<"Exception", "raise_exc">>)
    /\ Len(HandlerPoints) = 1
    /\ HandlerPoints[1].original_op = "typed_broadest"

\* the Return statements of a tree at the position of a point
ReturnsAt(t, point) ==
    {node \in NodesOf(t) : /\ node.kind = "Return"
                           /\ node.lineno = point.lineno
                           /\ node.col_offset = point.col_offset}

\* the Return statement of the unmutated target of mutant m
OriginalReturn(m) ==
    CHOOSE node \in ReturnsAt(Parse(target_sources[m.point.module_name]), m.point) : TRUE

\* C19: with types enabled, the mutant of a Return point classified "expr"
\* returns the logical not of the returned value when the declared return
\* type is bool, and its arithmetic negation when the type is int or float.
C19_TypedReturnExprMutation ==
    \A i \in 1..Len(calls) :
        LET m == calls[i].mutant
            p == m.point
        IN (/\ eng_types
            /\ p.node_type = "Return"
            /\ p.original_op = "expr"
            /\ p.inferred_type \in {"bool", "int", "float"})
           => \A node \in ReturnsAt(calls[i].loaded[p.module_name], p) :
                 /\ node.kids # <<>>
                 /\ node.kids[1].kind = "UnaryOp"
                 /\ node.kids[1].ops
                       = <<IF p.inferred_type = "bool" THEN "Not" ELSE "USub">>
                 /\ node.kids[1].kids = OriginalReturn(m).kids

(***************************************************************************)
(* THE COVERAGE TRACKER (coverage_tracker.py): one coverage pass.  The     *)
(* interpreter calls a thread's trace function on every function call, and *)
(* the trace function a call returned on every line of that frame, as long *)
(* as the thread has a trace function; sys.settrace sets the calling       *)
(* thread's, threading.settrace the one of threads started later.          *)
(***************************************************************************)
MaxItems == 2        \* how many tests the pass runs

MainThread == "main"
Worker == "worker"
Threads == {MainThread, Worker}

\* self.target_files, and the files code runs from
TracedFiles == {"/proj/a.py"}
CodeFiles == {"/proj/a.py", "/proj/helper.py"}
\* the line numbers of a function's lines (frame.f_lineno)
FrameLines == {1, 2}

NotStarted == 0 - 1

\* a function frame: its file and the trace function the call event returned
Frame(filename, f_trace) == [filename |-> filename, f_trace |-> f_trace]

\* _LineTracer._trace: the trace function it returns ("none" for None)
_trace(active, filename, event) ==
    IF ~active THEN "none"
    ELSE IF event = "call"
         THEN IF filename \in TracedFiles THEN "_trace_lines" ELSE "none"
         ELSE "none"

\* _LineTracer._trace_lines: lines_hit afterwards
_trace_lines(hit, filename, lineno, event) ==
    IF event = "line" /\ filename \in TracedFiles
    THEN hit \cup {<<filename, lineno>>}
    ELSE hit

\* CoverageMap.add for every line of a set
AddAll(cmap, hit, test_id) ==
    [key \in DOMAIN cmap \cup hit |->
        (IF key \in DOMAIN cmap THEN cmap[key] ELSE {})
        \cup (IF key \in hit THEN {test_id} ELSE {})]

InitTracer ==
    /\ cpc = "run"
    /\ tracer_active = FALSE
    /\ lines_hit = {}
    /\ sys_trace = [th \in Threads |-> "none"]
    /\ threading_trace = "none"
    /\ frames = [th \in Threads |-> Nothing]
    /\ line_to_tests = <<>>
    /\ cur_item = 0
    /\ items_done = 0
    /\ born = [th \in Threads |-> IF th = MainThread THEN 0 ELSE NotStarted]
    /\ owned = {}
    /\ RunnerOff
    /\ ApplierOff
    /\ RegistryOff
    /\ EngineOff
    /\ PluginOff
    /\ EnricherOff
    /\ CleanupOff

\* pytest_runtest_setup: tracer.start()
RuntestSetup ==
    /\ cpc = "run"
    /\ cur_item = 0
    /\ items_done < MaxItems
    /\ frames[MainThread] = Nothing
    /\ cur_item' = items_done + 1
    /\ lines_hit' = {}
    /\ tracer_active' = TRUE
    /\ sys_trace' = [sys_trace EXCEPT ![MainThread] = "_trace"]
    /\ threading_trace' = "_trace"
    /\ UNCHANGED <<cpc, frames, line_to_tests, items_done, born, owned>>
    /\ UNCHANGED <<runnerVars, applierVars, registryVars, engineVars, pluginVars, enricherVars, cleanupVars>>

\* pytest_runtest_teardown: tracer.stop() and coverage_map.add for its lines
RuntestTeardown ==
    /\ cpc = "run"
    /\ cur_item # 0
    /\ frames[MainThread] = Nothing
    /\ sys_trace' = [sys_trace EXCEPT ![MainThread] = "none"]
    /\ threading_trace' = "none"
    /\ tracer_active' = FALSE
    /\ line_to_tests' = AddAll(line_to_tests, lines_hit, cur_item)
    /\ items_done' = items_done + 1
    /\ cur_item' = 0
    /\ UNCHANGED <<cpc, lines_hit, frames, born, owned>>
    /\ UNCHANGED <<runnerVars, applierVars, registryVars, engineVars, pluginVars, enricherVars, cleanupVars>>

\* the running code starts a thread: Thread.start
StartThread ==
    /\ cpc \in {"run", "done"}
    /\ born[Worker] = NotStarted
    /\ born' = [born EXCEPT ![Worker] = cur_item]
    /\ sys_trace' = [sys_trace EXCEPT ![Worker] = threading_trace]
    /\ UNCHANGED <<cpc, tracer_active, lines_hit, threading_trace, frames,
                   line_to_tests, cur_item, items_done, owned>>
    /\ UNCHANGED <<runnerVars, applierVars, registryVars, engineVars, pluginVars, enricherVars, cleanupVars>>

\* a thread calls a function of a file: the "call" event
CallFunction ==
    /\ cpc \in {"run", "done"}
    /\ \E th \in Threads, filename \in CodeFiles :
          /\ born[th] # NotStarted
          /\ frames[th] = Nothing
          /\ LET f_trace == IF sys_trace[th] = "_trace"
                            THEN _trace(tracer_active, filename, "call")
                            ELSE "none"
             IN frames' = [frames EXCEPT ![th] = Some(Frame(filename, f_trace))]
    /\ UNCHANGED <<cpc, tracer_active, lines_hit, sys_trace, threading_trace,
                   line_to_tests, cur_item, items_done, born, owned>>
    /\ UNCHANGED <<runnerVars, applierVars, registryVars, engineVars, pluginVars, enricherVars, cleanupVars>>

\* a thread runs a line of its frame: the "line" event
RunLine ==
    /\ cpc \in {"run", "done"}
    /\ \E th \in Threads, lineno \in FrameLines :
          /\ frames[th] # Nothing
          /\ LET frame == frames[th][1]
             IN /\ lines_hit' =
                      IF sys_trace[th] # "none" /\ frame.f_trace = "_trace_lines"
                      THEN _trace_lines(lines_hit, frame.filename, lineno, "line")
                      ELSE lines_hit
                /\ owned' =
                      IF /\ frame.filename \in TracedFiles
                         /\ cur_item # 0
                         /\ (th = MainThread \/ born[th] = cur_item)
                      THEN owned \cup {<<frame.filename, lineno, cur_item>>}
                      ELSE owned
    /\ UNCHANGED <<cpc, tracer_active, sys_trace, threading_trace, frames,
                   line_to_tests, cur_item, items_done, born>>
    /\ UNCHANGED <<runnerVars, applierVars, registryVars, engineVars, pluginVars, enricherVars, cleanupVars>>

\* a thread returns from its function
ReturnFromFunction ==
    /\ cpc \in {"run", "done"}
    /\ \E th \in Threads :
          /\ frames[th] # Nothing
          /\ frames' = [frames EXCEPT ![th] = Nothing]
    /\ UNCHANGED <<cpc, tracer_active, lines_hit, sys_trace, threading_trace,
                   line_to_tests, cur_item, items_done, born, owned>>
    /\ UNCHANGED <<runnerVars, applierVars, registryVars, engineVars, pluginVars, enricherVars, cleanupVars>>

\* the started thread ends
ThreadExit ==
    /\ cpc \in {"run", "done"}
    /\ born[Worker] # NotStarted
    /\ frames[Worker] = Nothing
    /\ born' = [born EXCEPT ![Worker] = NotStarted]
    /\ sys_trace' = [sys_trace EXCEPT ![Worker] = "none"]
    /\ UNCHANGED <<cpc, tracer_active, lines_hit, threading_trace, frames,
                   line_to_tests, cur_item, items_done, owned>>
    /\ UNCHANGED <<runnerVars, applierVars, registryVars, engineVars, pluginVars, enricherVars, cleanupVars>>

\* pytest.main returns and collect_coverage returns the map; the engine goes
\* on to the mutants
PassReturns ==
    /\ cpc = "run"
    /\ cur_item = 0
    /\ frames[MainThread] = Nothing
    /\ cpc' = "done"
    /\ UNCHANGED <<tracer_active, lines_hit, sys_trace, threading_trace, frames,
                   line_to_tests, cur_item, items_done, born, owned>>
    /\ UNCHANGED <<runnerVars, applierVars, registryVars, engineVars, pluginVars, enricherVars, cleanupVars>>

NextTracer ==
    \/ RuntestSetup
    \/ RuntestTeardown
    \/ StartThread
    \/ CallFunction
    \/ RunLine
    \/ ReturnFromFunction
    \/ ThreadExit
    \/ PassReturns

SpecTracer == InitTracer /\ [][NextTracer]_vars

\* C20: every entry (file, line) -> test of the coverage map is of a target
\* file and of a line the test ran between its setup and its teardown; a
\* line run in another file, outside any test, or by a thread after the
\* teardown of the test that started it is attributed to no test.
C20_EntriesBelongToTheirTest ==
    \A key \in DOMAIN line_to_tests :
        \A test_id \in line_to_tests[key] :
            /\ key[1] \in TracedFiles
            /\ <<key[1], key[2], test_id>> \in owned

\* C21: the coverage pass is over before the first mutant is installed or
\* run, and the trace hook is not installed while the mutants' tests run:
\* once collect_coverage has returned, no thread has the hook as its trace
\* function.
C21_NoTraceHookAfterThePass ==
    cpc = "done" => \A th \in Threads : sys_trace[th] = "none"

\* whether some target file of the run does not parse
SomeFileFailsToParse == \E i \in 1..Len(target_files) : ~target_files[i].parses

\* C22: when the source of a target file fails to parse, Engine.run raises
\* and returns no RunResult; no coverage pass has run and no mutant of any
\* target file has been installed or run.
C22_ParseFailureAbortsRun ==
    /\ SomeFileFailsToParse =>
          /\ epc \in {"start", "files", "raised"}
          /\ run_result = Nothing
          /\ coverage_runs = 0
          /\ calls = <<>>
          /\ run_results = <<>>
    /\ epc = "raised" => SomeFileFailsToParse
    /\ (epc = "files" /\ file_idx > Len(target_files)) => ~SomeFileFailsToParse

\* a run that raised at its second file, after it made mutants for the first
C22_Witness ==
    /\ epc = "raised"
    /\ file_idx = 2
    /\ all_mutants # <<>>
    /\ use_coverage
    /\ run_result = Nothing

\* C23: the RunResult Engine.run returns carries the coverage map of the run
\* when coverage is enabled, and a source snapshot for every target file.
C23_ResultCarriesCoverageAndSources ==
    epc = "done" =>
        LET rr == run_result[1]
        IN /\ use_coverage =>
                 /\ rr.coverage_map # Nothing
                 /\ rr.coverage_map = coverage_map
           /\ \A i \in 1..Len(target_files) :
                 /\ target_files[i].path \in DOMAIN rr.target_sources
                 /\ rr.target_sources[target_files[i].path] = target_files[i].stmts
(***************************************************************************)
(* LeelaPlugin.pytest_sessionfinish (plugin.py): the hook pytest calls     *)
(* when the test session is over.  It runs the engine on the session's    *)
(* target files and writes the report.                                    *)
(***************************************************************************)
\* the exit codes pytest hands to the hook: passed, tests failed, interrupted
ExitCodes == {0, 1, 2}

\* RunResult.survived
survived(rr) == SelectSeq(rr.results, LAMBDA r : ~r.killed)

\* the session the hook is called in: its exit status so far, the files the
\* --target / --diff options resolve to, the limits options, session.items
InitPlugin ==
    /\ ppc = "finish"
    /\ exitstatus \in ExitCodes
    /\ session_exitstatus = exitstatus
    /\ written = <<>>
    /\ epc = "off"
    /\ target_files \in TargetFileLists
    /\ eng_types = FALSE
    /\ use_coverage = FALSE
    /\ limits \in LimitChoices \ {Nothing}
    /\ diff_base \in {NoneValue, "main"}
    /\ diff_lines \in IF diff_base = NoneValue THEN {<<>>} ELSE DiffChoices
    /\ test_node_ids \in TestIdChoices \ {Nothing}
    /\ cov_found \in CoverageChoices
    /\ killer \in KillerChoices
    /\ meta_path \in EngineMetaPaths
    /\ modules = EngineModules
    /\ file_idx = 0 /\ all_mutants = <<>> /\ total_pruned = 0
    /\ next_mutant_id = 0 /\ total_mutants = 0
    /\ target_sources = <<>> /\ module_to_file = <<>>
    /\ coverage_map = Nothing /\ coverage_runs = 0 /\ mut_idx = 0
    /\ usage = 0 /\ stopped = FALSE /\ calls = <<>> /\ run_results = <<>>
    /\ run_result = Nothing
    /\ RunnerIdle
    /\ ApplierOff
    /\ RegistryOff
    /\ TracerOff
    /\ EnricherOff
    /\ CleanupOff

\* plugin.py:94-95 and 112-113: the early returns
SessionFinishReturns ==
    /\ ppc = "finish"
    /\ exitstatus # 0 \/ target_files = <<>>
    /\ ppc' = "returned"
    /\ UNCHANGED <<exitstatus, session_exitstatus, written>>
    /\ UNCHANGED <<runnerVars, applierVars, registryVars, engineVars, tracerVars, enricherVars, cleanupVars>>

\* plugin.py:94-127: Engine() is built with its defaults and run is called
SessionFinishRunsEngine ==
    /\ ppc = "finish"
    /\ exitstatus = 0
    /\ target_files # <<>>
    /\ eng_types' = TRUE
    /\ use_coverage' = TRUE
    /\ epc' = "start"
    /\ ppc' = "engine"
    /\ UNCHANGED <<exitstatus, session_exitstatus, written>>
    /\ UNCHANGED <<target_files, limits, diff_base, diff_lines, test_node_ids,
                   cov_found, killer, file_idx, all_mutants, total_pruned,
                   next_mutant_id, total_mutants, target_sources, module_to_file,
                   coverage_map, coverage_runs, mut_idx, usage, stopped, calls,
                   run_results, run_result>>
    /\ UNCHANGED <<runnerVars, applierVars, registryVars, tracerVars, enricherVars, cleanupVars>>

\* plugin.py:125-139: Engine.run has returned; the report is written and the
\* hook returns
SessionFinishReports ==
    /\ ppc = "engine"
    /\ epc = "done"
    /\ written' = Append(written, run_result[1])
    /\ ppc' = "reported"
    /\ UNCHANGED <<exitstatus, session_exitstatus>>
    /\ UNCHANGED <<runnerVars, applierVars, registryVars, engineVars, tracerVars, enricherVars, cleanupVars>>

NextPlugin ==
    \/ SessionFinishReturns
    \/ SessionFinishRunsEngine
    \/ SessionFinishReports
    \/ EngineBegin
    \/ LoadFile
    \/ LoadFails
    \/ FilterDiff
    \/ CollectCoverage
    \/ MemoryStop
    \/ RunMutant
    \/ EngineReturn

SpecPlugin == InitPlugin /\ [][NextPlugin]_vars

\* C24: after the plugin has run mutation testing at session finish, the
\* session exit status is 1 when at least one mutant survived, and stays 0
\* when every tested mutant was killed or no mutants were found.
C24_ExitStatusTellsSurvivors ==
    ppc = "reported" =>
        IF survived(written[1]) # <<>>
        THEN session_exitstatus = 1
        ELSE session_exitstatus = 0
(***************************************************************************)
(* Claims about the cleanup functions, the inner run's restore and the    *)
(* hook (checked under Spec).                                             *)
(***************************************************************************)
\* the name lists clear_target_modules is called with
NameLists ==
    { <<TargetName>>, <<TargetName, TargetSub>>, <<TargetSub, TargetName>>,
      <<TestModule, TargetName>> }

IsClean(mp, mods) ==
    /\ \A f \in SeqSet(mp) : ~IsMutatingFinder(f)
    /\ \A n \in Cached(mods) : ~(mods[n].file # <<>> /\ IsPrefix(TmpDir, mods[n].file))

NoneLoaded(mods, names) ==
    \A n \in Cached(mods) :
        \A i \in 1..Len(names) : n # names[i] /\ ~IsSubmoduleOf(n, names[i])

\* the entries the inner finally of runner.py:175-192 leaves in sys.modules
\* when the inner run ends in the current state
AfterInnerRun == RestoreModules(modules, saved_modules)

\* C26: when the inner test run ends, by return or by raise, sys.meta_path
\* is reset to exactly the snapshot taken just before the run; every entry
\* of the sys.modules snapshot is present again with the module object of
\* the snapshot; every entry added during the run whose file lies under the
\* working directory is removed, and entries added from elsewhere are kept.
C26_InnerRunRestoresSnapshot ==
    pc = "running" =>
        /\ RestoreMetaPath(meta_path, saved_meta_path) = saved_meta_path
        /\ \A n \in Cached(saved_modules) :
              n \in Cached(AfterInnerRun) /\ AfterInnerRun[n] = saved_modules[n]
        /\ \A n \in Cached(modules) \ Cached(saved_modules) :
              IF modules[n].file # <<>> /\ UnderCwd(modules[n].file)
              THEN n \notin Cached(AfterInnerRun)
              ELSE n \in Cached(AfterInnerRun) /\ AfterInnerRun[n] = modules[n]
        /\ Cached(AfterInnerRun) \subseteq Cached(saved_modules) \cup Cached(modules)

\* the inner run ends after it imported a module from the working directory
\* and a module of the snapshot went out of the cache
C26_Witness ==
    /\ pc = "running"
    /\ \E n \in Cached(modules) \ Cached(saved_modules) :
          modules[n].file # <<>> /\ UnderCwd(modules[n].file)
    /\ \E n \in Cached(saved_modules) : n \notin Cached(modules)

NoTargetCached(mods) == \A n \in Cached(mods) : ~IsTargetOrSub(n)

\* C27: at the moment the test run for a mutant starts, the mutant's finder
\* is on sys.meta_path and no target module and no submodule of a target is
\* in sys.modules; when run_tests_for_mutant returns, again no target
\* module and no submodule of a target is in sys.modules.
C27_NoTargetCachedAtStartAndReturn ==
    /\ (pc = "running" /\ steps = 0) =>
          /\ meta_path # <<>> /\ Head(meta_path) = OwnFinder
          /\ \A i \in 1..Len(module_names) :
                find_spec(meta_path, module_names[i]) = <<>>
          /\ NoTargetCached(modules)
    /\ pc = "done" => NoTargetCached(modules)

\* the call began with the target and its submodule cached, the inner run
\* imported the target again, and the call has returned
C27_Witness ==
    /\ pc = "done"
    /\ {TargetName, TargetSub} \subseteq Cached(start_modules)
    /\ exit = "returned"
    /\ steps > 0
    /\ NoTargetCached(modules)
(***************************************************************************)
(* Claims about the modules the hook loads while a mutant is installed    *)
(* (checked under SpecEngine).                                            *)
(***************************************************************************)
\* what the loader builds for the source when no mutation touches it
Unmodified(src) == fix_missing_locations(Parse(src))

\* the (call, target module) pairs where the module has no node of the
\* mutant's kind at the mutant's line and column
UnmatchedLoads ==
    { <<i, name>> \in (1..Len(calls)) \X (DOMAIN target_sources) :
         ~HasTarget(Parse(target_sources[name]), calls[i].mutant.point) }

\* C28: when the mutant's point matches no node of the module being loaded,
\* the module is loaded with unmodified code, and the run of the mutant
\* still gives a MutantResult for it; Engine.run does not raise.
C28_UnmatchedPointLoadsOriginal ==
    /\ \A pair \in UnmatchedLoads :
          /\ calls[pair[1]].loaded[pair[2]] = Unmodified(target_sources[pair[2]])
          /\ pair[1] <= Len(run_results)
          /\ run_results[pair[1]].mutant = calls[pair[1]].mutant
    /\ calls # <<>> => epc # "raised"

\* a mutant of one file was run while another target file, with no node at
\* the mutant's place, was registered with the finder, and the run returned
C28_Witness ==
    /\ epc = "done"
    /\ UnmatchedLoads # {}
    /\ \E pair \in UnmatchedLoads :
          calls[pair[1]].mutant.point.module_name # pair[2]

\* C29: while one mutant is installed and several target modules are
\* registered, only the target module that contains the mutant's point is
\* loaded in mutated form; every other target module is loaded with its
\* source unchanged, also when it has a node of the mutant's kind at the
\* mutant's line and column.
C29_OtherTargetsLoadUnchanged ==
    \A i \in 1..Len(calls) :
        \A name \in DOMAIN target_sources :
            name # calls[i].mutant.point.module_name
                => calls[i].loaded[name] = Unmodified(target_sources[name])
(***************************************************************************)
(* enrich_mutation_points on a function defined inside a function:        *)
(*   def f(x[: <outer_param>]) [-> <outer_returns>]:                      *)
(*       def g(x[: <inner_param>]) [-> <inner_returns>]:                  *)
(*           <stmt>                                                       *)
(*       return x                                                         *)
(***************************************************************************)
SignatureAnnotations == {NoAnnotation, AnnName("int"), AnnName("str"), AnnName("bool")}

NestedStmts ==
    {Stmt("return_expr", sh, <<>>) : sh \in {<<>>, <<"AddL">>, <<"Lt">>, <<"USub">>}}

NestedSources ==
    [outer_param : SignatureAnnotations, outer_returns : SignatureAnnotations,
     inner_param : SignatureAnnotations, inner_returns : SignatureAnnotations,
     stmt : NestedStmts]

\* ast.parse of the nested source
ParseNested(n) ==
    LET inner == Node("FunctionDef", 2, 4, <<>>, "g", <<PlaceStmt(n.stmt, 3, 8)>>)
        last == PlaceStmt(Stmt("return_expr", <<>>, <<>>), 3 + StmtLines(n.stmt), 4)
    IN NewNode("Module", <<>>, "",
               <<Node("FunctionDef", 1, 0, <<>>, "f", <<inner, last>>)>>)

\* collector.functions after collector.visit(tree): visit_FunctionDef
\* appends the function it is at and then visits the functions inside it
CollectNested(n) ==
    << _FuncInfo("f", 1, 3 + StmtLines(n.stmt), n.outer_param, n.outer_returns),
       _FuncInfo("g", 2, 2 + StmtLines(n.stmt), n.inner_param, n.inner_returns) >>

\* find_mutation_points of the nested source
NestedPoints(n) == Collect(ParseNested(n))

\* enrich_mutation_points of the nested source
enrich_nested(n, pts) ==
    IF pts = <<>> THEN pts
    ELSE [i \in 1..Len(pts) |-> EnrichPoint(ParseNested(n), CollectNested(n), pts[i])]

InitEnricher ==
    /\ tpc = "scanned"
    /\ nested \in NestedSources
    /\ typed_points = <<>>
    /\ RunnerOff
    /\ ApplierOff
    /\ RegistryOff
    /\ EngineOff
    /\ TracerOff
    /\ PluginOff
    /\ CleanupOff

\* type_extractor.py:175-221
EnrichNested ==
    /\ tpc = "scanned"
    /\ typed_points' = enrich_nested(nested, NestedPoints(nested))
    /\ tpc' = "enriched"
    /\ UNCHANGED nested
    /\ UNCHANGED <<runnerVars, applierVars, registryVars, engineVars, tracerVars, pluginVars, cleanupVars>>

NextEnricher == EnrichNested

SpecEnricher == InitEnricher /\ [][NextEnricher]_vars

\* the function defined inside the other one
InnerFunc(n) == CollectNested(n)[2]

\* C30: for a point inside nested function definitions, the inferred type
\* comes from the signature of the innermost function whose lines contain
\* the point, not from an enclosing function.
C30_InnermostSignatureTypesThePoint ==
    tpc = "enriched" =>
        \A i \in 1..Len(typed_points) :
            LET p == NestedPoints(nested)[i]
                g == InnerFunc(nested)
            IN (g.start_line <= p.lineno /\ p.lineno <= g.end_line)
                  => typed_points[i] = EnrichPoint(ParseNested(nested), <<g>>, p)
(***************************************************************************)
(* The cleanup functions on their own: remove_hook, clear_target_modules   *)
(* (import_hook.py) and _clean_process_state (engine.py), called in any   *)
(* order on a process state.                                              *)
(***************************************************************************)
\* sys.meta_path when a cleanup function is called: with and without the
\* finder of a call, a stale finder and pytest's hook
CleanupChains ==
    LET tails == InitialMetaPaths \cup {<<AssertionRewritingHook>> \o mp : mp \in InitialMetaPaths}
    IN tails \cup {<<OwnFinder>> \o mp : mp \in tails}

\* sys.modules when a cleanup function is called: any of the model's
\* modules from disk, the target as the hook loads it, a temp-directory module
CleanupCaches ==
    LET tmp == Module(0, TmpDir \o <<"tmp_target.py">>)
        hooked(m) == {m, Put(m, TargetName, Module(1, <<>>))}
        all == UNION {hooked(m) : m \in InitialModules}
    IN all \cup {Put(m, TmpModule, tmp) : m \in all}

InitCleanup ==
    /\ last_cleanup = "none"
    /\ meta_path \in CleanupChains
    /\ modules \in CleanupCaches
    /\ RunnerIdle
    /\ ApplierOff
    /\ RegistryOff
    /\ EngineOff
    /\ TracerOff
    /\ PluginOff
    /\ EnricherOff

\* import_hook.py:203-208
RemoveHook ==
    /\ \E f \in {OwnFinder, StaleFinder} : meta_path' = remove_hook(meta_path, f)
    /\ last_cleanup' = "remove_hook"
    /\ UNCHANGED modules
    /\ UNCHANGED <<runnerIdleVars, applierVars, registryVars, engineVars, tracerVars, pluginVars, enricherVars>>

\* import_hook.py:211-218
ClearTargetModules ==
    /\ \E names \in NameLists : modules' = clear_target_modules(modules, names)
    /\ last_cleanup' = "clear_target_modules"
    /\ UNCHANGED meta_path
    /\ UNCHANGED <<runnerIdleVars, applierVars, registryVars, engineVars, tracerVars, pluginVars, enricherVars>>

\* engine.py:53-80
CleanProcessState ==
    /\ meta_path' = CleanMetaPath(meta_path)
    /\ modules' = CleanModules(modules)
    /\ last_cleanup' = "_clean_process_state"
    /\ UNCHANGED <<runnerIdleVars, applierVars, registryVars, engineVars, tracerVars, pluginVars, enricherVars>>

NextCleanup ==
    \/ RemoveHook
    \/ ClearTargetModules
    \/ CleanProcessState

SpecCleanup == InitCleanup /\ [][NextCleanup]_vars

\* C25: the cleanup functions are idempotent: remove_hook for a finder that
\* is not on the chain, clear_target_modules for names that are not loaded
\* and _clean_process_state on a clean process each leave sys.meta_path and
\* sys.modules as they are, and doing any of them twice gives what doing it
\* once gives.
C25_CleanupIsIdempotent ==
    /\ \A f \in {OwnFinder, StaleFinder} :
          LET once == remove_hook(meta_path, f)
          IN /\ f \notin SeqSet(meta_path) => once = meta_path
             /\ remove_hook(once, f) = once
    /\ \A names \in NameLists :
          LET once == clear_target_modules(modules, names)
          IN /\ NoneLoaded(modules, names) => once = modules
             /\ NoneLoaded(once, names)
             /\ clear_target_modules(once, names) = once
    /\ LET mp1 == CleanMetaPath(meta_path)
           mods1 == CleanModules(modules)
       IN /\ IsClean(meta_path, modules) => mp1 = meta_path /\ mods1 = modules
          /\ IsClean(mp1, mods1)
          /\ CleanMetaPath(mp1) = mp1
          /\ CleanModules(mods1) = mods1

\* remove_hook has just been called and the process is one where no
\* cleanup function finds anything to do: no MutatingFinder on the chain,
\* no target and no temp-directory module in the cache, other modules cached
C25_Witness ==
    /\ last_cleanup = "remove_hook"
    /\ IsClean(meta_path, modules)
    /\ NoneLoaded(modules, <<TargetName>>)
    /\ \A f \in {OwnFinder, StaleFinder} : f \notin SeqSet(meta_path)
    /\ {JsonModule, TestModule} \subseteq Cached(modules)

====
